---------------------------- MODULE Spec2Model ----------------------------
(***************************************************************************)
(* A model of tlb_winmd_gen: the type-library reflection and IDL synthesis *)
(* engine (src/src/idlgen.rs) and the member index of the browser        *)
(* (src/src/ui.rs).                                                        *)
(*                                                                         *)
(* Text is modelled as a sequence of one-character strings, so that the    *)
(* operations the code performs on characters (trimming trailing '*',      *)
(* ASCII case folding, decimal formatting) are computed, not assumed.      *)
(* The COM objects the code reads (ITypeLib, ITypeInfo, FUNCDESC, TYPEDESC)*)
(* are records holding what each COM call returns, including whether the   *)
(* call succeeds.  Writes to the output stream are assumed to succeed.     *)
(***************************************************************************)
EXTENDS Integers, Sequences, FiniteSets, TLC

VARIABLES
    tdesc,      \* resolver harness: the TYPEDESC handed to type_desc_to_string
    resolved,   \* resolver harness: the string type_desc_to_string returned
    fd,         \* member harness: the FUNCDESC under extraction
    minfo,      \* member harness: what get_function_info returned for fd
    sig,        \* member harness: the lines print_function wrote for fd
    type_lib,   \* the loaded type library: its ITypeInfo entries by ordinal
    tmethods,   \* type harness: what get_type_methods(0) returned
    tidl,       \* type harness: what get_type_idl(0) returned
    app,        \* type harness: the types and SearchItems built by App::new
    pc,         \* build_tlb: the loop it is in
    idx,        \* build_tlb: the ordinal the loop is at
    out,        \* build_tlb: the lines written so far
    result,     \* build_tlb: "running", "Ok" or "Err"
    browser,    \* run_app: the fields of the App
    ui_pc       \* run_app: "off", "loop", "returned" or "panicked"

descVars == <<tdesc, resolved>>

funcVars == <<fd, minfo, sig>>

typeVars == <<tmethods, tidl, app>>

buildVars == <<pc, idx, out, result>>

uiVars == <<browser, ui_pc>>

vars == <<tdesc, resolved, fd, minfo, sig, type_lib, tmethods, tidl, app,
          pc, idx, out, result, browser, ui_pc>>

\* A result slot that no operation has filled yet.
NotRun == [run |-> FALSE]

\* The browser has not been started.
UiIdle ==
    /\ browser = NotRun
    /\ ui_pc = "off"

(***************************************************************************)
(* VARENUM tags (windows::Win32::System::Variant) as type_desc_to_string   *)
(* matches them.                                                           *)
(***************************************************************************)
VT_EMPTY ==
    0
VT_NULL ==
    1
VT_I2 ==
    2
VT_I4 ==
    3
VT_R4 ==
    4
VT_R8 ==
    5
VT_CY ==
    6
VT_DATE ==
    7
VT_BSTR ==
    8
VT_DISPATCH ==
    9
VT_ERROR ==
    10
VT_BOOL ==
    11
VT_VARIANT ==
    12
VT_UNKNOWN ==
    13
VT_DECIMAL ==
    14
VT_I1 ==
    16
VT_UI1 ==
    17
VT_UI2 ==
    18
VT_UI4 ==
    19
VT_I8 ==
    20
VT_UI8 ==
    21
VT_INT ==
    22
VT_UINT ==
    23
VT_VOID ==
    24
VT_HRESULT ==
    25
VT_PTR ==
    26
VT_SAFEARRAY ==
    27
VT_USERDEFINED ==
    29
VT_LPSTR ==
    30
VT_LPWSTR ==
    31

(***************************************************************************)
(* TYPEKIND values (windows::Win32::System::Com).                          *)
(***************************************************************************)
TKIND_ENUM ==
    0
TKIND_RECORD ==
    1
TKIND_MODULE ==
    2
TKIND_INTERFACE ==
    3
TKIND_DISPATCH ==
    4
TKIND_COCLASS ==
    5
TKIND_ALIAS ==
    6
TKIND_UNION ==
    7

(***************************************************************************)
(* Bounds of the model.                                                    *)
(***************************************************************************)
\* Deepest pointer chain (nested VT_PTR) of a drawn descriptor.
MaxPtr ==
    2

\* Largest raw leaf tag drawn for a descriptor: covers every VARENUM tag the
\* resolver names and several it does not.
MaxTag ==
    33

(***************************************************************************)
(* Text helpers.                                                           *)
(***************************************************************************)
Digits == <<"0", "1", "2", "3", "4", "5", "6", "7", "8", "9">>

\* Display of a non-negative integer (format!("{}", n)): decimal, unpadded.
RECURSIVE ToDecimal(_)
ToDecimal(n) ==
    IF n < 10 THEN <<Digits[n + 1]>>
    ELSE ToDecimal(n \div 10) \o <<Digits[(n % 10) + 1]>>

S_void == <<"v", "o", "i", "d">>
S_long == <<"l", "o", "n", "g">>
S_HRESULT == <<"H", "R", "E", "S", "U", "L", "T">>
S_enum_sp == <<"e", "n", "u", "m", " ">>
S_TYPE_ == <<"T", "Y", "P", "E", "_">>
S_UnknownUserDefined ==
    <<"U", "n", "k", "n", "o", "w", "n", "U", "s", "e", "r",
      "D", "e", "f", "i", "n", "e", "d">>
S_arg == <<"a", "r", "g">>
S_val == <<"v", "a", "l">>
S_retVal == <<"r", "e", "t", "V", "a", "l">>

(***************************************************************************)
(* get_type_documentation: the error of GetDocumentation is dropped and    *)
(* the name stays the empty BSTR it was initialised to.  A documentation   *)
(* record is [ok, name, doc_string]: whether GetDocumentation succeeds,    *)
(* and the name and help string it then writes.                            *)
(***************************************************************************)
get_type_documentation(doc) ==
    IF doc.ok
    THEN [name |-> doc.name, doc_string |-> doc.doc_string]
    ELSE [name |-> <<>>, doc_string |-> <<>>]

get_name(doc) ==
    get_type_documentation(doc).name

(***************************************************************************)
(* type_desc_to_string.  A TYPEDESC is [vt] for a primitive or an unknown  *)
(* tag, [vt |-> VT_PTR, lptdesc] for a pointer, and                        *)
(* [vt |-> VT_USERDEFINED, hreftype] for a reference, where hreftype holds *)
(* what GetRefTypeInfo(hreftype) yields: [found], and when found the       *)
(* referenced type's documentation, whether its GetTypeAttr succeeds       *)
(* (attr_ok) and its typekind.                                             *)
(***************************************************************************)
PrimitiveName(vt) ==
    CASE vt = VT_I2 -> <<"s", "h", "o", "r", "t">>
      [] vt = VT_I4 -> S_long
      [] vt = VT_R4 -> <<"f", "l", "o", "a", "t">>
      [] vt = VT_R8 -> <<"d", "o", "u", "b", "l", "e">>
      [] vt = VT_CY -> <<"C", "U", "R", "R", "E", "N", "C", "Y">>
      [] vt = VT_DATE -> <<"D", "A", "T", "E">>
      [] vt = VT_BSTR -> <<"B", "S", "T", "R">>
      [] vt = VT_DISPATCH -> <<"I", "D", "i", "s", "p", "a", "t", "c", "h", "*">>
      [] vt = VT_ERROR -> <<"S", "C", "O", "D", "E">>
      [] vt = VT_BOOL ->
            <<"V", "A", "R", "I", "A", "N", "T", "_", "B", "O", "O", "L">>
      [] vt = VT_VARIANT -> <<"V", "A", "R", "I", "A", "N", "T">>
      [] vt = VT_UNKNOWN -> <<"I", "U", "n", "k", "n", "o", "w", "n", "*">>
      [] vt = VT_DECIMAL -> <<"D", "E", "C", "I", "M", "A", "L">>
      [] vt = VT_I1 -> <<"c", "h", "a", "r">>
      [] vt = VT_UI1 ->
            <<"u", "n", "s", "i", "g", "n", "e", "d", " ", "c", "h", "a", "r">>
      [] vt = VT_UI2 ->
            <<"u", "n", "s", "i", "g", "n", "e", "d", " ",
              "s", "h", "o", "r", "t">>
      [] vt = VT_UI4 ->
            <<"u", "n", "s", "i", "g", "n", "e", "d", " ", "l", "o", "n", "g">>
      [] vt = VT_I8 -> <<"i", "n", "t", "6", "4">>
      [] vt = VT_UI8 -> <<"u", "i", "n", "t", "6", "4">>
      [] vt = VT_INT -> <<"i", "n", "t">>
      [] vt = VT_UINT ->
            <<"u", "n", "s", "i", "g", "n", "e", "d", " ", "i", "n", "t">>
      [] vt = VT_VOID -> S_void
      [] vt = VT_HRESULT -> S_HRESULT
      [] vt = VT_SAFEARRAY -> <<"S", "A", "F", "E", "A", "R", "R", "A", "Y">>
      [] vt = VT_LPSTR -> <<"L", "P", "S", "T", "R">>
      [] vt = VT_LPWSTR -> <<"L", "P", "W", "S", "T", "R">>
      [] OTHER -> S_TYPE_ \o ToDecimal(vt)

UserDefinedName(ref) ==
    IF ref.found
    THEN IF ref.attr_ok /\ ref.typekind = TKIND_ENUM
         THEN S_enum_sp \o get_name(ref.doc)
         ELSE get_name(ref.doc)
    ELSE S_UnknownUserDefined

RECURSIVE type_desc_to_string(_)
type_desc_to_string(td) ==
    CASE td.vt = VT_PTR -> type_desc_to_string(td.lptdesc) \o <<"*">>
      [] td.vt = VT_USERDEFINED -> UserDefinedName(td.hreftype)
      [] OTHER -> PrimitiveName(td.vt)

(***************************************************************************)
(* Descriptors drawn for the resolver.                                     *)
(***************************************************************************)
S_Foo == <<"F", "o", "o">>

Doc(n) == [ok |-> TRUE, name |-> n, doc_string |-> <<>>]

NoDoc == [ok |-> FALSE, name |-> <<>>, doc_string |-> <<>>]

Docs == {NoDoc, Doc(<<>>), Doc(S_Foo)}

RefInfos ==
    {[found |-> FALSE]}
    \cup {[found |-> TRUE, doc |-> d, attr_ok |-> a, typekind |-> k] :
            d \in Docs, a \in BOOLEAN, k \in {TKIND_ENUM, TKIND_RECORD}}

LeafDescs ==
    {[vt |-> t] : t \in (0 .. MaxTag) \ {VT_PTR, VT_USERDEFINED}}
    \cup {[vt |-> VT_USERDEFINED, hreftype |-> r] : r \in RefInfos}

RECURSIVE PtrDescs(_, _)
PtrDescs(leaves, depth) ==
    IF depth = 0 THEN leaves
    ELSE LET inner == PtrDescs(leaves, depth - 1)
         IN  inner \cup {[vt |-> VT_PTR, lptdesc |-> t] : t \in inner}

\* The leaf of a descriptor and the number of VT_PTR links above it.
RECURSIVE LeafOf(_)
LeafOf(td) == IF td.vt = VT_PTR THEN LeafOf(td.lptdesc) ELSE td

RECURSIVE PtrDepth(_)
PtrDepth(td) == IF td.vt = VT_PTR THEN 1 + PtrDepth(td.lptdesc) ELSE 0

(***************************************************************************)
(* FUNCDESC and what ITypeInfo returns for it.  A function descriptor is   *)
(*   [memid, invkind, elemdescFunc (the declared return TYPEDESC),         *)
(*    params (the ELEMDESCs: [tdesc, wParamFlags]),                        *)
(*    doc (GetDocumentation(memid)),                                       *)
(*    names ([ok, list]: whether GetNames succeeds, and the names it       *)
(*           writes: the member's first, then at most cParams parameters)] *)
(***************************************************************************)
INVOKE_FUNC ==
    1
INVOKE_PROPERTYGET ==
    2
INVOKE_PROPERTYPUT ==
    4
INVOKE_PROPERTYPUTREF ==
    8

PARAMFLAG_FIN ==
    1
PARAMFLAG_FOUT ==
    2
PARAMFLAG_FLCID ==
    4
PARAMFLAG_FRETVAL ==
    8
PARAMFLAG_FOPT ==
    16
PARAMFLAG_FHASDEFAULT ==
    32

\* The reserved member ids of the IUnknown and IDispatch methods.
HiddenLo ==
    1610612736
HiddenHi ==
    1610743808

\* (bits & flag) != 0 for a single-bit flag.
HasFlag(bits, flag) == (bits \div flag) % 2 = 1

\* The range test with its lower end exclusive: a variant the filtering
\* properties must tell from IsHiddenMemid.
IsHiddenMemidExclusive(memid) == memid > HiddenLo /\ memid < HiddenHi

IsHiddenMemid(memid) == memid >= HiddenLo /\ memid < HiddenHi

cParams(f) == Len(f.params)

\* c_names after GetNames(..).ok(): 0 when the call fails.
c_names(f) == IF f.names.ok THEN Len(f.names.list) ELSE 0

\* The name of parameter i (0-based, as in the code's loop).
ParamName(f, i) ==
    IF (i + 1) < c_names(f)
    THEN f.names.list[i + 2]
    ELSE S_arg \o ToDecimal(i)

\* The flag words pushed for wParamFlags, in the order of the code's tests.
ParamFlagNames(bits) ==
    (IF HasFlag(bits, PARAMFLAG_FIN) THEN <<"in">> ELSE <<>>)
    \o (IF HasFlag(bits, PARAMFLAG_FOUT) THEN <<"out">> ELSE <<>>)
    \o (IF HasFlag(bits, PARAMFLAG_FLCID) THEN <<"lcid">> ELSE <<>>)
    \o (IF HasFlag(bits, PARAMFLAG_FRETVAL) THEN <<"retval">> ELSE <<>>)
    \o (IF HasFlag(bits, PARAMFLAG_FOPT) THEN <<"optional">> ELSE <<>>)
    \o (IF HasFlag(bits, PARAMFLAG_FHASDEFAULT)
        THEN <<"defaultvalue">> ELSE <<>>)

Contains(seq, x) == \E j \in 1 .. Len(seq) : seq[j] = x

\* Vec::pop in place of Vec::remove(pos): a variant the retval properties
\* must tell from RemoveAt.
RemoveLast(seq, pos) == SubSeq(seq, 1, Len(seq) - 1)

\* Vec::remove(pos) for a 1-based position.
RemoveAt(seq, pos) ==
    SubSeq(seq, 1, pos - 1) \o SubSeq(seq, pos + 1, Len(seq))

\* str::trim_end_matches('*'): removes every trailing '*'.
RECURSIVE trim_end_matches_star(_)
trim_end_matches_star(s) ==
    IF Len(s) > 0 /\ s[Len(s)] = "*"
    THEN trim_end_matches_star(SubSeq(s, 1, Len(s) - 1))
    ELSE s

InvokeKindName(invkind) ==
    CASE invkind = INVOKE_PROPERTYGET -> "propget"
      [] invkind = INVOKE_PROPERTYPUT -> "propput"
      [] invkind = INVOKE_PROPERTYPUTREF -> "propputref"
      [] OTHER -> "func"

\* The ParamInfo list built by the loop over 0..cParams.
ParamInfos(f) ==
    [j \in 1 .. cParams(f) |->
        [name |-> ParamName(f, j - 1),
         type_name |-> type_desc_to_string(f.params[j].tdesc),
         flags |-> ParamFlagNames(f.params[j].wParamFlags)]]

\* iter().position(|p| p.flags.contains("retval")): 0 stands for None.
RetvalPosition(params) ==
    IF \E j \in 1 .. Len(params) : Contains(params[j].flags, "retval")
    THEN CHOOSE j \in 1 .. Len(params) :
            /\ Contains(params[j].flags, "retval")
            /\ \A h \in 1 .. (j - 1) : ~Contains(params[h].flags, "retval")
    ELSE 0

\* The guard of the return value transformation.
RetvalRuleApplies(f) ==
    \/ f.invkind = INVOKE_PROPERTYGET
    \/ type_desc_to_string(f.elemdescFunc) # S_void

\* get_function_info: [ok |-> FALSE] is the Err("Hidden method").
get_function_info(f) ==
    IF IsHiddenMemid(f.memid)
    THEN [ok |-> FALSE]
    ELSE LET declared == type_desc_to_string(f.elemdescFunc)
             all == ParamInfos(f)
             pos == RetvalPosition(all)
             fires == RetvalRuleApplies(f) /\ pos # 0
         IN  [ok |-> TRUE,
              name |-> get_type_documentation(f.doc).name,
              ret_type |-> IF fires
                           THEN trim_end_matches_star(all[pos].type_name)
                           ELSE declared,
              params |-> IF fires THEN RemoveAt(all, pos) ELSE all,
              invoke_kind |-> InvokeKindName(f.invkind)]

(***************************************************************************)
(* print_function.  The text it writes is kept as structured lines:        *)
(*   [k |-> "id", memid, helpstring]     the "[id(0x........), ...]" line  *)
(*   [k |-> "sig", prefix, name, params] the "HRESULT name (...);" line,   *)
(* params being the comma-separated entries "[attrs] type name" in the     *)
(* order written.  The literal of a defaultvalue attribute is not kept.    *)
(***************************************************************************)
PropPrefix(invkind) ==
    CASE invkind = INVOKE_PROPERTYGET -> "[propget] "
      [] invkind = INVOKE_PROPERTYPUT -> "[propput] "
      [] invkind = INVOKE_PROPERTYPUTREF -> "[propputref] "
      [] OTHER -> ""

UpperCase ==
    <<"A", "B", "C", "D", "E", "F", "G", "H", "I", "J", "K", "L", "M",
      "N", "O", "P", "Q", "R", "S", "T", "U", "V", "W", "X", "Y", "Z">>

LowerCase ==
    <<"a", "b", "c", "d", "e", "f", "g", "h", "i", "j", "k", "l", "m",
      "n", "o", "p", "q", "r", "s", "t", "u", "v", "w", "x", "y", "z">>

\* u8::to_ascii_lowercase on one character.
to_ascii_lowercase(c) ==
    IF \E j \in 1 .. Len(UpperCase) : UpperCase[j] = c
    THEN LowerCase[CHOOSE j \in 1 .. Len(UpperCase) : UpperCase[j] = c]
    ELSE c

\* Plain equality: a variant the naming property must tell from
\* eq_ignore_ascii_case.
eq_case_sensitive(a, b) == a = b

eq_ignore_ascii_case(a, b) ==
    /\ Len(a) = Len(b)
    /\ \A j \in 1 .. Len(a) :
          to_ascii_lowercase(a[j]) = to_ascii_lowercase(b[j])

\* The loop "for i in 1..c_names" that picks the output parameter's name.
RetName(f) ==
    IF \E j \in 1 .. (c_names(f) - 1) :
          eq_ignore_ascii_case(f.names.list[j + 1], S_val)
    THEN S_retVal
    ELSE S_val

\* The entries written by the loop over 0..cParams.
PrintedParams(f) ==
    [j \in 1 .. cParams(f) |->
        [attrs |-> ParamFlagNames(f.params[j].wParamFlags),
         type |-> type_desc_to_string(f.params[j].tdesc),
         name |-> ParamName(f, j - 1)]]

\* The trailing "[out, retval] T* name".
SynthParam(f) ==
    [attrs |-> <<"out", "retval">>,
     type |-> type_desc_to_string(f.elemdescFunc) \o <<"*">>,
     name |-> RetName(f)]

print_function(f) ==
    IF IsHiddenMemid(f.memid)
    THEN <<>>
    ELSE LET d == get_type_documentation(f.doc)
         IN  << [k |-> "id", memid |-> f.memid, helpstring |-> d.doc_string],
                [k |-> "sig",
                 prefix |-> PropPrefix(f.invkind),
                 name |-> d.name,
                 params |-> IF RetvalRuleApplies(f)
                            THEN Append(PrintedParams(f), SynthParam(f))
                            ELSE PrintedParams(f)] >>

(***************************************************************************)
(* Type entries.  A library is the sequence of its ITypeInfo entries, the  *)
(* entry of ordinal i (0-based, as in the code) being lib[i + 1]:          *)
(*   info_ok    ITypeLib::GetTypeInfo(i) succeeds                          *)
(*   attr_ok    ITypeInfo::GetTypeAttr succeeds                            *)
(*   typekind, wTypeFlags, wMajorVerNum, wMinorVerNum   the TYPEATTR       *)
(*   doc        GetDocumentation(-1)                                       *)
(*   cust       [ti2, ok, items]: the cast to ITypeInfo2 succeeds,         *)
(*              GetAllCustData succeeds, and its items [vt, val]           *)
(*   funcs      per function index [ok, desc]: GetFuncDesc and its FUNCDESC*)
(*   vars       per variable index [ok, desc]: GetVarDesc and its VARDESC  *)
(*              [doc, has_value, lVal, tdesc]                              *)
(*   impls      per implemented type [ok, doc, flags]: whether             *)
(*              GetRefTypeOfImplType and GetRefTypeInfo succeed, the       *)
(*              referenced type's documentation, and GetImplTypeFlags      *)
(*   dll        [ok, name]: GetDllEntry of the first function              *)
(***************************************************************************)
TYPEFLAG_FHIDDEN ==
    16
TYPEFLAG_FDUAL ==
    64
TYPEFLAG_FNONEXTENSIBLE ==
    128
TYPEFLAG_FOLEAUTOMATION ==
    256
TYPEFLAG_FRESTRICTED ==
    512
TYPEFLAG_FDISPATCHABLE ==
    4096

IMPLTYPEFLAG_FDEFAULT ==
    1
IMPLTYPEFLAG_FSOURCE ==
    2

get_type_info_count(lib) == Len(lib)

\* get_type_info(index): the entry, obtained only when info_ok.
type_info_at(lib, index) == lib[index + 1]

\* i32 Display.
IntToString(n) == IF n < 0 THEN <<"-">> \o ToDecimal(-n) ELSE ToDecimal(n)

KindName(typekind) ==
    CASE typekind = TKIND_ENUM -> "Enum"
      [] typekind = TKIND_RECORD -> "Record"
      [] typekind = TKIND_MODULE -> "Module"
      [] typekind = TKIND_INTERFACE -> "Interface"
      [] typekind = TKIND_DISPATCH -> "Dispatch"
      [] typekind = TKIND_COCLASS -> "CoClass"
      [] typekind = TKIND_ALIAS -> "Alias"
      [] typekind = TKIND_UNION -> "Union"
      [] OTHER -> "Unknown"

get_type_name_and_kind(lib, index) ==
    LET ti == type_info_at(lib, index)
    IN  IF ~ti.info_ok \/ ~ti.attr_ok
        THEN [ok |-> FALSE]
        ELSE [ok |-> TRUE,
              name |-> get_type_documentation(ti.doc).name,
              kind |-> KindName(ti.typekind)]

\* One turn of the loop of get_type_methods: a function whose descriptor
\* cannot be read, or that get_function_info rejects, is passed over.
PushMethod(methods, slot) ==
    IF slot.ok /\ get_function_info(slot.desc).ok
    THEN Append(methods, get_function_info(slot.desc))
    ELSE methods

RECURSIVE MethodsLoop(_, _, _)
MethodsLoop(funcs, i, methods) ==
    IF i > Len(funcs) THEN methods
    ELSE MethodsLoop(funcs, i + 1, PushMethod(methods, funcs[i]))

\* GetFuncDesc(i)? in place of "if let Ok": a variant that gives up on the
\* first descriptor it cannot read.
get_type_methods_aborting(lib, index) ==
    LET ti == type_info_at(lib, index)
    IN  IF \/ ~ti.info_ok
           \/ ~ti.attr_ok
           \/ \E j \in 1 .. Len(ti.funcs) : ~ti.funcs[j].ok
        THEN [ok |-> FALSE]
        ELSE [ok |-> TRUE, methods |-> MethodsLoop(ti.funcs, 1, <<>>)]

get_type_methods(lib, index) ==
    LET ti == type_info_at(lib, index)
    IN  IF ~ti.info_ok \/ ~ti.attr_ok
        THEN [ok |-> FALSE]
        ELSE [ok |-> TRUE, methods |-> MethodsLoop(ti.funcs, 1, <<>>)]

get_enum_info(var) ==
    [name |-> get_type_documentation(var.doc).name,
     value |-> IF var.has_value THEN IntToString(var.lVal) ELSE <<>>]

RECURSIVE EnumsLoop(_, _, _)
EnumsLoop(vs, i, enums) ==
    IF i > Len(vs) THEN enums
    ELSE EnumsLoop(vs, i + 1,
                   IF vs[i].ok THEN Append(enums, get_enum_info(vs[i].desc))
                   ELSE enums)

get_type_enums(lib, index) ==
    LET ti == type_info_at(lib, index)
    IN  IF ~ti.info_ok \/ ~ti.attr_ok
        THEN [ok |-> FALSE]
        ELSE [ok |-> TRUE,
              enums |-> IF ti.typekind = TKIND_ENUM
                        THEN EnumsLoop(ti.vars, 1, <<>>)
                        ELSE <<>>]

(***************************************************************************)
(* The text of one type entry, as structured lines:                        *)
(*   [k |-> "attrs", attrs]   an attribute block "[ a, b, ... ]"           *)
(*   [k |-> "open", kw, name, base]   "kw name [: base] {"                 *)
(*   [k |-> "id" / "sig" ...]         the lines of print_function          *)
(*   [k |-> "enumval", name, has_value, value]   "name = value," / "name," *)
(*   [k |-> "impl", default, source, name]   a coclass member              *)
(*   [k |-> "typedef", name]  [k |-> "field", type, name]                  *)
(*   [k |-> "const", name, value]                                          *)
(*   [k |-> "close", name]    "};" ("} name;" for a record)                *)
(*   [k |-> "comment", kind]  "// Unsupported type kind: kind"             *)
(*   [k |-> "blank"]                                                       *)
(***************************************************************************)
Blank == [k |-> "blank"]

FlagAttrs(bits, flag, word) ==
    IF HasFlag(bits, flag) THEN <<[a |-> word]>> ELSE <<>>

\* get_custom_data / get_lib_custom_data: only BSTR items are surfaced.
RECURSIVE CustomAttrs(_)
CustomAttrs(items) ==
    IF items = <<>> THEN <<>>
    ELSE (IF Head(items).vt = VT_BSTR
          THEN <<[a |-> "custom", s |-> Head(items).val]>>
          ELSE <<>>) \o CustomAttrs(Tail(items))

\* The attribute list built by print_interface_header, before custom data.
HeaderAttrs(ti) ==
    LET d == get_type_documentation(ti.doc)
        f == ti.wTypeFlags
    IN  <<[a |-> "uuid"]>>
        \o (IF ti.wMajorVerNum # 0 \/ ti.wMinorVerNum > 0
            THEN <<[a |-> "version", major |-> ti.wMajorVerNum,
                                     minor |-> ti.wMinorVerNum]>>
            ELSE <<>>)
        \o (IF d.doc_string # <<>>
            THEN <<[a |-> "helpstring", s |-> d.doc_string]>> ELSE <<>>)
        \o FlagAttrs(f, TYPEFLAG_FHIDDEN, "hidden")
        \o FlagAttrs(f, TYPEFLAG_FDUAL, "dual")
        \o FlagAttrs(f, TYPEFLAG_FRESTRICTED, "restricted")
        \o FlagAttrs(f, TYPEFLAG_FNONEXTENSIBLE, "nonextensible")
        \o FlagAttrs(f, TYPEFLAG_FOLEAUTOMATION, "oleautomation")
        \o (IF HasFlag(f, TYPEFLAG_FDISPATCHABLE) \/ HasFlag(f, TYPEFLAG_FDUAL)
            THEN <<[a |-> "oleautomation"]>> ELSE <<>>)

HasHeader(typekind) ==
    typekind \in {TKIND_INTERFACE, TKIND_DISPATCH, TKIND_COCLASS, TKIND_ENUM}

\* print_interface_header: [ok, lines]; an Err leaves nothing written.
print_interface_header(ti) ==
    IF ~ti.attr_ok THEN [ok |-> FALSE, lines |-> <<>>]
    ELSE IF ~HasHeader(ti.typekind) THEN [ok |-> TRUE, lines |-> <<>>]
    ELSE IF ti.cust.ti2 /\ ~ti.cust.ok THEN [ok |-> FALSE, lines |-> <<>>]
    ELSE [ok |-> TRUE,
          lines |-> <<[k |-> "attrs",
                       attrs |-> HeaderAttrs(ti)
                                 \o (IF ti.cust.ti2
                                     THEN CustomAttrs(ti.cust.items)
                                     ELSE <<>>)]>>]

\* The base interface name: that of the first implemented type, when it can
\* be reached.
BaseName(ti) ==
    IF Len(ti.impls) > 0 /\ ti.impls[1].ok
    THEN get_name(ti.impls[1].doc)
    ELSE <<>>

RECURSIVE FunctionLines(_)
FunctionLines(funcs) ==
    IF funcs = <<>> THEN <<>>
    ELSE (IF Head(funcs).ok THEN print_function(Head(funcs).desc) ELSE <<>>)
         \o FunctionLines(Tail(funcs))

InterfaceBody(ti, name) ==
    <<[k |-> "open", kw |-> "interface", name |-> name, base |-> BaseName(ti)]>>
    \o FunctionLines(ti.funcs)
    \o <<[k |-> "close", name |-> <<>>]>>

print_var(var) ==
    [k |-> "enumval",
     name |-> get_type_documentation(var.doc).name,
     has_value |-> var.has_value,
     value |-> IF var.has_value THEN IntToString(var.lVal) ELSE <<>>]

print_record_member(var) ==
    [k |-> "field",
     type |-> type_desc_to_string(var.tdesc),
     name |-> get_type_documentation(var.doc).name]

\* print_module_const writes nothing for a constant without a value.
print_module_const(var) ==
    IF var.has_value
    THEN <<[k |-> "const",
            name |-> get_type_documentation(var.doc).name,
            value |-> IntToString(var.lVal)]>>
    ELSE <<>>

\* A loop that writes the values last to first.
RECURSIVE EnumValueLinesReversed(_)
EnumValueLinesReversed(vs) ==
    IF vs = <<>> THEN <<>>
    ELSE EnumValueLinesReversed(Tail(vs))
         \o (IF Head(vs).ok THEN <<print_var(Head(vs).desc)>> ELSE <<>>)

\* The loop "for i in 0..cVars" of the TKIND_ENUM arm.
RECURSIVE EnumValueLines(_)
EnumValueLines(vs) ==
    IF vs = <<>> THEN <<>>
    ELSE (IF Head(vs).ok THEN <<print_var(Head(vs).desc)>> ELSE <<>>)
         \o EnumValueLines(Tail(vs))

RECURSIVE RecordLines(_)
RecordLines(vs) ==
    IF vs = <<>> THEN <<>>
    ELSE (IF Head(vs).ok THEN <<print_record_member(Head(vs).desc)>> ELSE <<>>)
         \o RecordLines(Tail(vs))

RECURSIVE ModuleConstLines(_)
ModuleConstLines(vs) ==
    IF vs = <<>> THEN <<>>
    ELSE (IF Head(vs).ok THEN print_module_const(Head(vs).desc) ELSE <<>>)
         \o ModuleConstLines(Tail(vs))

RECURSIVE CoClassLines(_)
CoClassLines(impls) ==
    IF impls = <<>> THEN <<>>
    ELSE (IF Head(impls).ok
          THEN <<[k |-> "impl",
                  default |-> HasFlag(Head(impls).flags, IMPLTYPEFLAG_FDEFAULT),
                  source |-> HasFlag(Head(impls).flags, IMPLTYPEFLAG_FSOURCE),
                  name |-> get_name(Head(impls).doc)]>>
          ELSE <<>>)
         \o CoClassLines(Tail(impls))

\* The dllname of a module: GetDllEntry of function 0, when both that
\* function's descriptor and the entry can be read.
DllName(ti) ==
    IF Len(ti.funcs) > 0 /\ ti.funcs[1].ok /\ ti.dll.ok
    THEN ti.dll.name
    ELSE <<>>

ModuleAttrs(ti) ==
    LET d == get_type_documentation(ti.doc)
    IN  (IF DllName(ti) # <<>>
         THEN <<[a |-> "dllname", s |-> DllName(ti)]>> ELSE <<>>)
        \o <<[a |-> "uuid"]>>
        \o (IF d.doc_string # <<>>
            THEN <<[a |-> "helpstring", s |-> d.doc_string]>> ELSE <<>>)

\* The match on type_kind in print_type_info.
BodyLines(ti) ==
    LET name == get_type_documentation(ti.doc).name
    IN  CASE ti.typekind = TKIND_INTERFACE -> InterfaceBody(ti, name)
          [] ti.typekind = TKIND_DISPATCH ->
                IF HasFlag(ti.wTypeFlags, TYPEFLAG_FDUAL)
                THEN InterfaceBody(ti, name)
                ELSE <<>>
          [] ti.typekind = TKIND_ENUM ->
                <<[k |-> "open", kw |-> "enum", name |-> name, base |-> <<>>]>>
                \o EnumValueLines(ti.vars)
                \o <<[k |-> "close", name |-> <<>>]>>
          [] ti.typekind = TKIND_COCLASS ->
                <<[k |-> "open", kw |-> "coclass", name |-> name,
                   base |-> <<>>]>>
                \o CoClassLines(ti.impls)
                \o <<[k |-> "close", name |-> <<>>]>>
          [] ti.typekind = TKIND_ALIAS ->
                IF Len(ti.impls) > 0 /\ ti.impls[1].ok
                THEN <<[k |-> "typedef", name |-> name]>>
                ELSE <<>>
          [] ti.typekind = TKIND_RECORD ->
                <<[k |-> "open", kw |-> "typedef struct", name |-> name,
                   base |-> <<>>]>>
                \o RecordLines(ti.vars)
                \o <<[k |-> "close", name |-> name]>>
          [] ti.typekind = TKIND_MODULE ->
                <<[k |-> "attrs", attrs |-> ModuleAttrs(ti)],
                  [k |-> "open", kw |-> "module", name |-> name,
                   base |-> <<>>]>>
                \o ModuleConstLines(ti.vars)
                \o <<[k |-> "close", name |-> <<>>]>>
          [] OTHER -> <<[k |-> "comment", kind |-> ti.typekind]>>

\* print_type_info: [ok, lines].  Both ways to fail (GetTypeAttr, the header)
\* happen before the first write.
print_type_info(ti) ==
    IF ~ti.attr_ok \/ ~print_interface_header(ti).ok
    THEN [ok |-> FALSE, lines |-> <<>>]
    ELSE [ok |-> TRUE,
          lines |-> print_interface_header(ti).lines
                    \o BodyLines(ti) \o <<Blank>>]

get_type_idl(lib, index) ==
    LET ti == type_info_at(lib, index)
    IN  IF ~ti.info_ok THEN [ok |-> FALSE, lines |-> <<>>]
        ELSE print_type_info(ti)

(***************************************************************************)
(* The member index built by App::new (src/src/ui.rs): the types that      *)
(* could be named, and one SearchItem per method and per enum value.       *)
(***************************************************************************)
MethodItems(i, name, res) ==
    IF res.ok
    THEN [j \in 1 .. Len(res.methods) |->
            [type_index |-> i, type_name |-> name,
             member_name |-> res.methods[j].name, kind |-> "Method"]]
    ELSE <<>>

EnumItems(i, name, res) ==
    IF res.ok
    THEN [j \in 1 .. Len(res.enums) |->
            [type_index |-> i, type_name |-> name,
             member_name |-> res.enums[j].name, kind |-> "Enum"]]
    ELSE <<>>

\* The loop "for i in 0..count" of App::new, from ordinal i on.
RECURSIVE IndexLoop(_, _, _)
IndexLoop(lib, i, acc) ==
    IF i >= get_type_info_count(lib) THEN acc
    ELSE LET nk == get_type_name_and_kind(lib, i)
         IN  IndexLoop(lib, i + 1,
                IF nk.ok
                THEN [types |-> Append(acc.types,
                                       [name |-> nk.name, kind |-> nk.kind]),
                      all_search_items |->
                          acc.all_search_items
                          \o MethodItems(i, nk.name, get_type_methods(lib, i))
                          \o EnumItems(i, nk.name, get_type_enums(lib, i))]
                ELSE acc)

AppNewIndex(lib) ==
    IndexLoop(lib, 0, [types |-> <<>>, all_search_items |-> <<>>])

(***************************************************************************)
(* Resolver harness: one descriptor is drawn and resolved.                 *)
(***************************************************************************)
InitDesc ==
    /\ tdesc \in PtrDescs(LeafDescs, MaxPtr)
    /\ resolved = NotRun
    /\ fd = NotRun
    /\ minfo = NotRun
    /\ sig = NotRun
    /\ type_lib = <<>>
    /\ tmethods = NotRun
    /\ tidl = NotRun
    /\ app = NotRun
    /\ pc = "idle"
    /\ idx = 0
    /\ out = <<>>
    /\ result = "idle"
    /\ UiIdle

Resolve ==
    /\ tdesc # NotRun
    /\ ~resolved.run
    /\ resolved' = [run |-> TRUE, val |-> type_desc_to_string(tdesc)]
    /\ UNCHANGED <<tdesc, funcVars, type_lib, typeVars, buildVars, uiVars>>

NextDesc == Resolve

SpecDesc == InitDesc /\ [][NextDesc]_vars

(***************************************************************************)
(* Member harness: one FUNCDESC is drawn; get_function_info and            *)
(* print_function are each applied to it once, in either order.            *)
(***************************************************************************)
\* Most parameters of a drawn FUNCDESC.
MaxParams ==
    2

\* All sequences over S of length at most n.
BSeq(S, n) == UNION {[1 .. m -> S] : m \in 0 .. n}

S_Get == <<"G", "e", "t">>
S_VAL == <<"V", "A", "L">>
S_x == <<"x">>

Func(memid, invkind, ret, params, doc, names) ==
    [memid |-> memid, invkind |-> invkind, elemdescFunc |-> ret,
     params |-> params, doc |-> doc, names |-> names]

\* The names GetNames writes when every name is present: the member's name,
\* then "a", "b", ... for the parameters.
DefaultNames(n) ==
    [ok |-> TRUE,
     list |-> <<S_Get>> \o [j \in 1 .. n |-> <<LowerCase[j]>>]]

ParamTypes == PtrDescs({[vt |-> VT_I4]}, MaxPtr) \cup {[vt |-> VT_DISPATCH]}

RetTypes == {[vt |-> VT_VOID], [vt |-> VT_HRESULT], [vt |-> VT_I4]}

InParam == [tdesc |-> [vt |-> VT_I4], wParamFlags |-> PARAMFLAG_FIN]

\* Signatures: return types, parameter types and retval flags vary.
TypeProbes ==
    {Func(1, k, r, ps, Doc(S_Get), DefaultNames(Len(ps))) :
        k \in {INVOKE_FUNC, INVOKE_PROPERTYGET},
        r \in RetTypes,
        ps \in BSeq([tdesc : ParamTypes,
                     wParamFlags : {PARAMFLAG_FIN,
                                    PARAMFLAG_FOUT + PARAMFLAG_FRETVAL}],
                    MaxParams)}

\* Parameter names vary, and how many of them GetNames returns.
GetNamesResults(m, ns) ==
    {[ok |-> FALSE, list |-> <<>>]}
    \cup {[ok |-> TRUE, list |-> SubSeq(<<m>> \o ns, 1, c)] :
            c \in 1 .. (Len(ns) + 1)}

NameProbesOf(m, ns) ==
    {Func(1, INVOKE_FUNC, r, [j \in 1 .. Len(ns) |-> InParam], Doc(m), g) :
        r \in {[vt |-> VT_VOID], [vt |-> VT_HRESULT]},
        g \in GetNamesResults(m, ns)}

NameProbes ==
    UNION {NameProbesOf(m, ns) :
            m \in {S_Get, S_val},
            ns \in BSeq({S_val, S_VAL, S_retVal, S_x}, MaxParams)}

\* Member ids around the reserved range.
MemidProbes ==
    {Func(id, k, [vt |-> VT_HRESULT],
          <<[tdesc |-> [vt |-> VT_PTR, lptdesc |-> [vt |-> VT_I4]],
             wParamFlags |-> PARAMFLAG_FOUT + PARAMFLAG_FRETVAL]>>,
          d, DefaultNames(1)) :
        id \in {-4, 0, HiddenLo - 1, HiddenLo, HiddenLo + 1,
                HiddenHi - 1, HiddenHi, HiddenHi + 1},
        k \in {INVOKE_FUNC, INVOKE_PROPERTYGET, INVOKE_PROPERTYPUT},
        d \in {NoDoc, Doc(S_Get)}}

FuncProbes == TypeProbes \cup NameProbes \cup MemidProbes

InitFunc ==
    /\ fd \in FuncProbes
    /\ minfo = NotRun
    /\ sig = NotRun
    /\ tdesc = NotRun
    /\ resolved = NotRun
    /\ type_lib = <<>>
    /\ tmethods = NotRun
    /\ tidl = NotRun
    /\ app = NotRun
    /\ pc = "idle"
    /\ idx = 0
    /\ out = <<>>
    /\ result = "idle"
    /\ UiIdle

GetFunctionInfo ==
    /\ fd # NotRun
    /\ ~minfo.run
    /\ minfo' = [run |-> TRUE, val |-> get_function_info(fd)]
    /\ UNCHANGED <<fd, sig, descVars, type_lib, typeVars, buildVars, uiVars>>

PrintFunction ==
    /\ fd # NotRun
    /\ ~sig.run
    /\ sig' = [run |-> TRUE, val |-> print_function(fd)]
    /\ UNCHANGED <<fd, minfo, descVars, type_lib, typeVars, buildVars, uiVars>>

NextFunc == GetFunctionInfo \/ PrintFunction

SpecFunc == InitFunc /\ [][NextFunc]_vars

(***************************************************************************)
(* Type harness: a library of one entry is drawn; get_type_methods,        *)
(* get_type_idl and the index construction of App::new are each applied  *)
(* to it once, in any order.                                               *)
(***************************************************************************)
\* Most functions of a drawn type entry.
MaxFuncs ==
    3

\* Most variables (enum values) of a drawn type entry.
MaxVars ==
    2

S_Open == <<"O", "p", "e", "n">>
S_Close == <<"C", "l", "o", "s", "e">>
S_QueryInterface ==
    <<"Q", "u", "e", "r", "y", "I", "n", "t", "e", "r", "f", "a", "c", "e">>
S_Invoke == <<"I", "n", "v", "o", "k", "e">>
S_A == <<"A">>
S_B == <<"B">>

BaseType ==
    [info_ok |-> TRUE, attr_ok |-> TRUE,
     typekind |-> TKIND_INTERFACE, wTypeFlags |-> 0,
     wMajorVerNum |-> 0, wMinorVerNum |-> 0,
     doc |-> Doc(S_Foo),
     cust |-> [ti2 |-> TRUE, ok |-> TRUE, items |-> <<>>],
     funcs |-> <<>>, vars |-> <<>>, impls |-> <<>>,
     dll |-> [ok |-> FALSE, name |-> <<>>]]

\* A parameterless HRESULT method.
Method(memid, name) ==
    [ok |-> TRUE,
     desc |-> Func(memid, INVOKE_FUNC, [vt |-> VT_HRESULT], <<>>, Doc(name),
                   [ok |-> TRUE, list |-> <<name>>])]

Unreadable == [ok |-> FALSE]

FuncSlots ==
    {Unreadable,
     Method(1, S_Open),
     Method(HiddenHi, S_Close),
     Method(HiddenLo, S_QueryInterface),
     Method(HiddenHi - 1, S_Invoke)}

EnumValue(name, has, v) ==
    [ok |-> TRUE,
     desc |-> [doc |-> Doc(name), has_value |-> has, lVal |-> v,
               tdesc |-> [vt |-> VT_I4]]]

VarSlots ==
    {Unreadable, EnumValue(S_A, TRUE, 1), EnumValue(S_B, TRUE, 2),
     EnumValue(S_B, FALSE, 0)}

\* The ways one entry can fail to be read.
Damage(t) ==
    {t,
     [t EXCEPT !.info_ok = FALSE],
     [t EXCEPT !.attr_ok = FALSE],
     [t EXCEPT !.cust = [ti2 |-> TRUE, ok |-> FALSE, items |-> <<>>]]}

MethodTypeProbes ==
    UNION {Damage([BaseType EXCEPT !.typekind = kf[1], !.wTypeFlags = kf[2],
                                   !.funcs = fs]) :
            kf \in {<<TKIND_INTERFACE, 0>>,
                    <<TKIND_DISPATCH, TYPEFLAG_FDUAL + TYPEFLAG_FDISPATCHABLE>>,
                    <<TKIND_DISPATCH, TYPEFLAG_FDISPATCHABLE>>,
                    <<TKIND_MODULE, 0>>},
            fs \in BSeq(FuncSlots, MaxFuncs)}

EnumTypeProbes ==
    UNION {Damage([BaseType EXCEPT !.typekind = TKIND_ENUM, !.vars = vs]) :
            vs \in BSeq(VarSlots, MaxVars)}

\* Records and modules whose members are variables.
VarTypeProbes ==
    {[BaseType EXCEPT !.typekind = k, !.vars = vs] :
        k \in {TKIND_RECORD, TKIND_MODULE}, vs \in BSeq(VarSlots, MaxVars)}

\* Every combination of the six type flags print_interface_header tests.
TypeFlagWords ==
    {h + d + r + n + o + p :
        h \in {0, TYPEFLAG_FHIDDEN}, d \in {0, TYPEFLAG_FDUAL},
        r \in {0, TYPEFLAG_FRESTRICTED}, n \in {0, TYPEFLAG_FNONEXTENSIBLE},
        o \in {0, TYPEFLAG_FOLEAUTOMATION},
        p \in {0, TYPEFLAG_FDISPATCHABLE}}

\* Interfaces and dispinterfaces with one method, under every flag word.
FlagTypeProbes ==
    {[BaseType EXCEPT !.typekind = k, !.wTypeFlags = f,
                      !.funcs = <<Method(1, S_Open)>>] :
        k \in {TKIND_INTERFACE, TKIND_DISPATCH}, f \in TypeFlagWords}

InitType ==
    /\ type_lib \in {<<t>> : t \in MethodTypeProbes \cup EnumTypeProbes
                                   \cup VarTypeProbes \cup FlagTypeProbes}
    /\ tmethods = NotRun
    /\ tidl = NotRun
    /\ app = NotRun
    /\ tdesc = NotRun
    /\ resolved = NotRun
    /\ fd = NotRun
    /\ minfo = NotRun
    /\ sig = NotRun
    /\ pc = "idle"
    /\ idx = 0
    /\ out = <<>>
    /\ result = "idle"
    /\ UiIdle

GetTypeMethods ==
    /\ type_lib # <<>>
    /\ pc = "idle"
    /\ ~tmethods.run
    /\ tmethods' = [run |-> TRUE, val |-> get_type_methods(type_lib, 0)]
    /\ UNCHANGED <<type_lib, tidl, app, descVars, funcVars, buildVars, uiVars>>

GetTypeIdl ==
    /\ type_lib # <<>>
    /\ pc = "idle"
    /\ ~tidl.run
    /\ tidl' = [run |-> TRUE, val |-> get_type_idl(type_lib, 0)]
    /\ UNCHANGED <<type_lib, tmethods, app, descVars, funcVars, buildVars, uiVars>>

AppNew ==
    /\ type_lib # <<>>
    /\ pc = "idle"
    /\ ~app.run
    /\ app' = [run |-> TRUE, val |-> AppNewIndex(type_lib)]
    /\ UNCHANGED <<type_lib, tmethods, tidl, descVars, funcVars, buildVars, uiVars>>

NextType == GetTypeMethods \/ GetTypeIdl \/ AppNew

SpecType == InitType /\ [][NextType]_vars

(***************************************************************************)
(* build_tlb as a state machine.  pc is the loop it is in ("fwd", "enum",  *)
(* "body"), idx the ordinal that loop is at, result its outcome so far     *)
(* ("idle" before the call, "running", then "Ok" or "Err").  Each written  *)
(* line is kept with the loop that wrote it and the ordinal it was written *)
(* for (-1 for a line that belongs to no entry); an Err leaves the lines   *)
(* written so far in the stream, as they are in the file main.rs created.  *)
(***************************************************************************)
\* Most entries of a drawn library.
MaxTypes ==
    3

\* A TYPEKIND outside the eight the code names.
TKIND_MAX ==
    8

Tag(lines, phase, ord) ==
    [j \in 1 .. Len(lines) |->
        [phase |-> phase, ord |-> ord, line |-> lines[j]]]

\* The lines written before the first loop, once the library is read.
LibraryHeader ==
    <<[k |-> "banner"],
      [k |-> "attrs",
       attrs |-> <<[a |-> "uuid"], [a |-> "version"], [a |-> "helpstring"]>>],
      [k |-> "library"],
      Blank>>

\* The match on type_kind in the forward-declaration loop.
ForwardDecl(ti) ==
    LET name == get_type_documentation(ti.doc).name
    IN  CASE ti.typekind = TKIND_INTERFACE ->
                <<[k |-> "fwd", kw |-> "interface", name |-> name]>>
          [] ti.typekind = TKIND_DISPATCH ->
                IF HasFlag(ti.wTypeFlags, TYPEFLAG_FDUAL)
                THEN <<[k |-> "fwd", kw |-> "interface", name |-> name]>>
                ELSE <<[k |-> "fwd", kw |-> "dispinterface", name |-> name]>>
          [] ti.typekind = TKIND_COCLASS ->
                <<[k |-> "fwd", kw |-> "coclass", name |-> name]>>
          [] OTHER -> <<>>

S_IFoo == <<"I", "F", "o", "o">>
S_IBar == <<"I", "B", "a", "r">>
S_DBaz == <<"D", "B", "a", "z">>
S_Widget == <<"W", "i", "d", "g", "e", "t">>
S_Color == <<"C", "o", "l", "o", "r">>
S_Consts == <<"C", "o", "n", "s", "t", "s">>

Shape(typekind, flags, name) ==
    [BaseType EXCEPT !.typekind = typekind, !.wTypeFlags = flags,
                     !.doc = Doc(name)]

InterfaceShape ==
    [Shape(TKIND_INTERFACE, 0, S_IFoo) EXCEPT
        !.funcs = <<Method(1, S_Open), Method(HiddenLo, S_QueryInterface)>>]

DualShape ==
    [Shape(TKIND_DISPATCH, TYPEFLAG_FDUAL + TYPEFLAG_FDISPATCHABLE, S_IBar)
        EXCEPT !.funcs = <<Method(1, S_Open)>>]

DispShape ==
    [Shape(TKIND_DISPATCH, TYPEFLAG_FDISPATCHABLE, S_DBaz) EXCEPT
        !.funcs = <<Method(1, S_Open)>>]

CoClassShape ==
    [Shape(TKIND_COCLASS, 0, S_Widget) EXCEPT
        !.impls = <<[ok |-> TRUE, doc |-> Doc(S_IFoo),
                     flags |-> IMPLTYPEFLAG_FDEFAULT]>>]

EnumShape ==
    [Shape(TKIND_ENUM, 0, S_Color) EXCEPT
        !.vars = <<EnumValue(S_A, TRUE, 1), EnumValue(S_B, FALSE, 0)>>]

ModuleShape ==
    [Shape(TKIND_MODULE, 0, S_Consts) EXCEPT
        !.vars = <<EnumValue(S_A, TRUE, 1)>>]

TypeShapes ==
    {InterfaceShape, DualShape, DispShape, CoClassShape, EnumShape,
     ModuleShape,
     Shape(TKIND_MAX, 0, S_Foo),
     [InterfaceShape EXCEPT !.info_ok = FALSE],
     [CoClassShape EXCEPT !.attr_ok = FALSE],
     [EnumShape EXCEPT !.cust = [ti2 |-> TRUE, ok |-> FALSE, items |-> <<>>]],
     [InterfaceShape EXCEPT
        !.cust = [ti2 |-> TRUE, ok |-> FALSE, items |-> <<>>]]}

Init ==
    /\ type_lib \in BSeq(TypeShapes, MaxTypes)
    /\ pc = "idle"
    /\ idx = 0
    /\ out = <<>>
    /\ result = "idle"
    /\ UiIdle
    /\ tmethods = NotRun
    /\ tidl = NotRun
    /\ app = NotRun
    /\ tdesc = NotRun
    /\ resolved = NotRun
    /\ fd = NotRun
    /\ minfo = NotRun
    /\ sig = NotRun

\* Lines 304-344: load the library, read its attributes, documentation and
\* custom data, write the header.  The library-level reads can fail before
\* the first write (load, attributes, documentation) or after the banner
\* line (custom data).
Begin ==
    /\ result = "idle"
    /\ pc = "idle"
    /\ \E outcome \in {"ok", "load", "custdata"} :
          CASE outcome = "ok" ->
                  /\ out' = Tag(LibraryHeader, "head", -1)
                  /\ pc' = "fwd"
                  /\ result' = "running"
            [] outcome = "load" ->
                  /\ out' = <<>>
                  /\ pc' = "head"
                  /\ result' = "Err"
            [] outcome = "custdata" ->
                  /\ out' = Tag(<<[k |-> "banner"]>>, "head", -1)
                  /\ pc' = "head"
                  /\ result' = "Err"
    /\ idx' = 0
    /\ UNCHANGED <<type_lib, typeVars, descVars, funcVars, uiVars>>

\* One turn of the forward-declaration loop (lines 349-377).
FwdStep ==
    /\ result = "running"
    /\ pc = "fwd"
    /\ idx < get_type_info_count(type_lib)
    /\ LET ti == type_info_at(type_lib, idx)
       IN  IF ~ti.info_ok
           THEN /\ idx' = idx + 1
                /\ UNCHANGED <<out, result>>
           ELSE IF ~ti.attr_ok
           THEN /\ result' = "Err"
                /\ UNCHANGED <<out, idx>>
           ELSE /\ out' = out \o Tag(ForwardDecl(ti), "fwd", idx)
                /\ idx' = idx + 1
                /\ UNCHANGED result
    /\ UNCHANGED <<pc, type_lib, typeVars, descVars, funcVars, uiVars>>

FwdEnd ==
    /\ result = "running"
    /\ pc = "fwd"
    /\ idx = get_type_info_count(type_lib)
    /\ out' = out \o Tag(<<Blank>>, "fwd", -1)
    /\ pc' = "enum"
    /\ idx' = 0
    /\ UNCHANGED <<result, type_lib, typeVars, descVars, funcVars, uiVars>>

\* One turn of a body loop: enums says whether it is the loop that prints
\* the enum entries or the one that prints the others.
BodyTurn(phase, enums) ==
    LET ti == type_info_at(type_lib, idx)
    IN  IF ~ti.info_ok
        THEN /\ idx' = idx + 1
             /\ UNCHANGED <<out, result>>
        ELSE IF ~ti.attr_ok
        THEN /\ result' = "Err"
             /\ UNCHANGED <<out, idx>>
        ELSE IF (ti.typekind = TKIND_ENUM) # enums
        THEN /\ idx' = idx + 1
             /\ UNCHANGED <<out, result>>
        ELSE IF ~print_type_info(ti).ok
        THEN /\ result' = "Err"
             /\ UNCHANGED <<out, idx>>
        ELSE /\ out' = out \o Tag(print_type_info(ti).lines, phase, idx)
             /\ idx' = idx + 1
             /\ UNCHANGED result

\* One turn of the enum loop (lines 381-391).
EnumStep ==
    /\ result = "running"
    /\ pc = "enum"
    /\ idx < get_type_info_count(type_lib)
    /\ BodyTurn("enum", TRUE)
    /\ UNCHANGED <<pc, type_lib, typeVars, descVars, funcVars, uiVars>>

EnumEnd ==
    /\ result = "running"
    /\ pc = "enum"
    /\ idx = get_type_info_count(type_lib)
    /\ out' = out \o Tag(<<Blank>>, "enum", -1)
    /\ pc' = "body"
    /\ idx' = 0
    /\ UNCHANGED <<result, type_lib, typeVars, descVars, funcVars, uiVars>>

\* One turn of the loop over the remaining entries (lines 395-405).
BodyStep ==
    /\ result = "running"
    /\ pc = "body"
    /\ idx < get_type_info_count(type_lib)
    /\ BodyTurn("body", FALSE)
    /\ UNCHANGED <<pc, type_lib, typeVars, descVars, funcVars, uiVars>>

\* Lines 407-408: the closing brace and Ok.
BodyEnd ==
    /\ result = "running"
    /\ pc = "body"
    /\ idx = get_type_info_count(type_lib)
    /\ out' = out \o Tag(<<[k |-> "end"]>>, "body", -1)
    /\ pc' = "done"
    /\ result' = "Ok"
    /\ UNCHANGED <<idx, type_lib, typeVars, descVars, funcVars, uiVars>>

Next ==
    \/ Begin
    \/ FwdStep
    \/ FwdEnd
    \/ EnumStep
    \/ EnumEnd
    \/ BodyStep
    \/ BodyEnd

Spec == Init /\ [][Next]_vars

(***************************************************************************)
(* Properties of the resolver and of member extraction.                    *)
(***************************************************************************)
\* The retval rule as the claims state it, read from the FUNCDESC itself.
IsRetvalParam(e) == HasFlag(e.wParamFlags, PARAMFLAG_FRETVAL)

HasRetvalParam(f) == \E j \in 1 .. cParams(f) : IsRetvalParam(f.params[j])

FirstRetval(f) ==
    CHOOSE j \in 1 .. cParams(f) :
        /\ IsRetvalParam(f.params[j])
        /\ \A h \in 1 .. (j - 1) : ~IsRetvalParam(f.params[h])

DeclaredNotVoidOrPropget(f) ==
    \/ f.elemdescFunc.vt # VT_VOID
    \/ f.invkind = INVOKE_PROPERTYGET

RuleFires(f) == DeclaredNotVoidOrPropget(f) /\ HasRetvalParam(f)

\* Number of '*' characters ending s.
RECURSIVE TrailingStars(_)
TrailingStars(s) ==
    IF Len(s) > 0 /\ s[Len(s)] = "*"
    THEN 1 + TrailingStars(SubSeq(s, 1, Len(s) - 1))
    ELSE 0

\* C4: when the retval rule fires and the retval parameter's resolved type
\* ends in k >= 1 pointer markers, the visible return type is that type with
\* exactly one trailing '*' removed (so it ends in exactly k-1 of them).
C4_RetvalStripsExactlyOnePointer ==
    (minfo.run /\ minfo.val.ok /\ RuleFires(fd)) =>
        LET t == type_desc_to_string(fd.params[FirstRetval(fd)].tdesc)
        IN  TrailingStars(t) >= 1 =>
                /\ minfo.val.ret_type = SubSeq(t, 1, Len(t) - 1)
                /\ TrailingStars(minfo.val.ret_type) = TrailingStars(t) - 1

SigLine == sig.val[2]

SigWritten == sig.run /\ Len(sig.val) = 2

\* C6: a signature line written by print_function carries at most one
\* parameter tagged retval: a retval-flagged parameter is not listed among
\* the ordinary parameters as well as in the trailing [out, retval] one.
C6_EmittedSignatureHasOneRetval ==
    SigWritten =>
        Cardinality({j \in 1 .. Len(SigLine.params) :
                        Contains(SigLine.params[j].attrs, "retval")}) <= 1

\* Every spelling of "val" under ASCII case folding.
ValSpellings ==
    {<<a, b, c>> : a \in {"v", "V"}, b \in {"a", "A"}, c \in {"l", "L"}}

\* print_function appended the synthesized output parameter.
SynthAppended == SigWritten /\ Len(SigLine.params) = cParams(fd) + 1

\* C7: the synthesized output parameter is named val when no existing
\* parameter is named val under case-insensitive comparison, and retVal when
\* at least one is.
C7_SynthesizedNameAvoidsVal ==
    SynthAppended =>
        LET ps == SigLine.params
            taken == \E j \in 1 .. cParams(fd) : ps[j].name \in ValSpellings
        IN  ps[Len(ps)].name = IF taken THEN S_retVal ELSE S_val

\* C7 witness: an existing parameter is spelled VAL and the synthesized
\* parameter was named retVal.
C7_Witness ==
    /\ SynthAppended
    /\ \E j \in 1 .. cParams(fd) : SigLine.params[j].name = S_VAL
    /\ \A j \in 1 .. cParams(fd) : SigLine.params[j].name # S_val
    /\ SigLine.params[Len(SigLine.params)].name = S_retVal

\* The value a decimal numeral denotes.
DigitValue(c) == (CHOOSE j \in 1 .. 10 : Digits[j] = c) - 1

RECURSIVE FromDecimal(_)
FromDecimal(s) ==
    IF Len(s) = 0 THEN 0
    ELSE 10 * FromDecimal(SubSeq(s, 1, Len(s) - 1)) + DigitValue(s[Len(s)])

IsNumeral(s) ==
    /\ Len(s) > 0
    /\ \A j \in 1 .. Len(s) : \E d \in 1 .. 10 : Digits[d] = s[j]

RecognizedTags ==
    {VT_I2, VT_I4, VT_R4, VT_R8, VT_CY, VT_DATE, VT_BSTR, VT_DISPATCH,
     VT_ERROR, VT_BOOL, VT_VARIANT, VT_UNKNOWN, VT_DECIMAL, VT_I1, VT_UI1,
     VT_UI2, VT_UI4, VT_I8, VT_UI8, VT_INT, VT_UINT, VT_VOID, VT_HRESULT,
     VT_PTR, VT_SAFEARRAY, VT_USERDEFINED, VT_LPSTR, VT_LPWSTR}

\* The name the resolver gave the leaf: the result without the '*' added
\* for each pointer link.
ResolvedLeafName == SubSeq(resolved.val, 1, Len(resolved.val) - PtrDepth(tdesc))

\* C10: the resolver never yields a blank name: an unrecognized tag n renders
\* as TYPE_n, a reference that cannot be located as UnknownUserDefined, and a
\* located reference whose documentation name is missing as a placeholder
\* token, not as an empty name.
C10_ResolverNeverBlank ==
    resolved.run =>
        LET leaf == LeafOf(tdesc)
            name == ResolvedLeafName
        IN  /\ Len(resolved.val) > 0
            /\ leaf.vt \notin RecognizedTags =>
                  /\ SubSeq(name, 1, 5) = S_TYPE_
                  /\ IsNumeral(SubSeq(name, 6, Len(name)))
                  /\ FromDecimal(SubSeq(name, 6, Len(name))) = leaf.vt
            /\ (leaf.vt = VT_USERDEFINED /\ ~leaf.hreftype.found) =>
                  name = S_UnknownUserDefined
            /\ (leaf.vt = VT_USERDEFINED /\ leaf.hreftype.found) =>
                  name \notin {<<>>, S_enum_sp}

\* What does hold of the resolver: every case of C10 but the located
\* reference with a missing documentation name.
ResolverPlaceholders ==
    resolved.run =>
        LET leaf == LeafOf(tdesc)
            name == ResolvedLeafName
        IN  /\ leaf.vt \notin RecognizedTags =>
                  /\ SubSeq(name, 1, 5) = S_TYPE_
                  /\ IsNumeral(SubSeq(name, 6, Len(name)))
                  /\ FromDecimal(SubSeq(name, 6, Len(name))) = leaf.vt
            /\ (leaf.vt = VT_USERDEFINED /\ ~leaf.hreftype.found) =>
                  name = S_UnknownUserDefined
            /\ (leaf.vt = VT_USERDEFINED /\ leaf.hreftype.found
                    /\ get_name(leaf.hreftype.doc) # <<>>) =>
                  name \notin {<<>>, S_enum_sp}
            /\ (leaf.vt \in RecognizedTags \ {VT_USERDEFINED}) =>
                  Len(name) > 0

(***************************************************************************)
(* Properties of member filtering (type harness).                          *)
(***************************************************************************)
\* The reserved member-id range [0x60000000, 0x60020000), written out.
InReservedRange(memid) == memid >= 1610612736 /\ memid < 1610743808

ReadableType(ti) == ti.info_ok /\ ti.attr_ok

\* The function slots a reader of the type should see, in order.
VisibleFuncs(ti) ==
    SelectSeq(ti.funcs, LAMBDA s : s.ok /\ ~InReservedRange(s.desc.memid))

ReservedFuncs(ti) ==
    {s \in {ti.funcs[j] : j \in 1 .. Len(ti.funcs)} :
        s.ok /\ InReservedRange(s.desc.memid)}

ReservedNames(ti) == {get_name(s.desc.doc) : s \in ReservedFuncs(ti)}

NamesOf(items) == [j \in 1 .. Len(items) |-> items[j].name]

SlotNames(slots) == [j \in 1 .. Len(slots) |-> get_name(slots[j].desc.doc)]

SlotMemids(slots) == [j \in 1 .. Len(slots) |-> slots[j].desc.memid]

MethodItemNames(items) ==
    LET ms == SelectSeq(items, LAMBDA it : it.kind = "Method")
    IN  [j \in 1 .. Len(ms) |-> ms[j].member_name]

IdLines(lines) == SelectSeq(lines, LAMBDA l : l.k = "id")

SigLines(lines) == SelectSeq(lines, LAMBDA l : l.k = "sig")

\* The kinds whose body lists the type's functions.
EmitsMembers(ti) ==
    \/ ti.typekind = TKIND_INTERFACE
    \/ ti.typekind = TKIND_DISPATCH /\ HasFlag(ti.wTypeFlags, TYPEFLAG_FDUAL)

\* C8: a method whose member id lies in [0x60000000, 0x60020000) never
\* appears in the list get_type_methods returns, never appears in the search
\* index and never produces an id or signature line in the IDL of its type;
\* every readable method outside the range is kept, in order: in the list,
\* in the index of a type that can be named, and in the body of a type whose
\* body lists its functions (an interface or a dual dispatch interface).
C8_HiddenMethodsFiltered ==
    type_lib # <<>> =>
    LET ti == type_lib[1]
    IN  /\ (tmethods.run /\ tmethods.val.ok) =>
              /\ \A j \in 1 .. Len(tmethods.val.methods) :
                    tmethods.val.methods[j].name \notin ReservedNames(ti)
              /\ NamesOf(tmethods.val.methods) = SlotNames(VisibleFuncs(ti))
        /\ app.run =>
              /\ \A j \in 1 .. Len(app.val.all_search_items) :
                    app.val.all_search_items[j].kind = "Method" =>
                        app.val.all_search_items[j].member_name
                            \notin ReservedNames(ti)
              /\ ReadableType(ti) =>
                    MethodItemNames(app.val.all_search_items)
                        = SlotNames(VisibleFuncs(ti))
        /\ (tidl.run /\ tidl.val.ok) =>
              /\ \A j \in 1 .. Len(tidl.val.lines) :
                    /\ tidl.val.lines[j].k = "id" =>
                          ~InReservedRange(tidl.val.lines[j].memid)
                    /\ tidl.val.lines[j].k = "sig" =>
                          tidl.val.lines[j].name \notin ReservedNames(ti)
              /\ EmitsMembers(ti) =>
                    /\ SlotMemids(VisibleFuncs(ti))
                          = [j \in 1 .. Len(IdLines(tidl.val.lines)) |->
                                IdLines(tidl.val.lines)[j].memid]
                    /\ SlotNames(VisibleFuncs(ti))
                          = NamesOf(SigLines(tidl.val.lines))

\* C8 witness: an interface holding both a reserved and an ordinary method
\* has been listed, indexed and printed, and the ordinary method is there.
C8_Witness ==
    /\ type_lib # <<>>
    /\ type_lib[1].typekind = TKIND_INTERFACE
    /\ ReservedFuncs(type_lib[1]) # {}
    /\ Len(VisibleFuncs(type_lib[1])) > 0
    /\ tmethods.run /\ tmethods.val.ok /\ Len(tmethods.val.methods) > 0
    /\ app.run /\ Len(app.val.all_search_items) > 0
    /\ tidl.run /\ tidl.val.ok /\ Len(SigLines(tidl.val.lines)) > 0

\* C9: on a type whose info and attributes can be read, get_type_methods
\* with a function descriptor that cannot be read still returns Ok, and the
\* list is exactly what get_function_info makes of every other readable
\* function outside the reserved range, in the original order.
C9_MethodsNeverPartial ==
    (/\ type_lib # <<>>
     /\ tmethods.run
     /\ ReadableType(type_lib[1])
     /\ \E j \in 1 .. Len(type_lib[1].funcs) : ~type_lib[1].funcs[j].ok) =>
        /\ tmethods.val.ok
        /\ tmethods.val.methods =
              [j \in 1 .. Len(VisibleFuncs(type_lib[1])) |->
                  get_function_info(VisibleFuncs(type_lib[1])[j].desc)]

\* C9 witness: the middle one of three descriptors cannot be read and both
\* of the others are returned.
C9_Witness ==
    /\ type_lib # <<>>
    /\ ReadableType(type_lib[1])
    /\ Len(type_lib[1].funcs) = 3
    /\ ~type_lib[1].funcs[2].ok
    /\ tmethods.run /\ tmethods.val.ok
    /\ Len(tmethods.val.methods) = 2

(***************************************************************************)
(* Properties of build_tlb.                                                *)
(***************************************************************************)
Finished == result \in {"Ok", "Err"}

\* The library itself was read: the call got past its header.
LibraryRead == pc # "head" /\ pc # "idle"

\* 1 for a forward declaration, 2 for a line of an enum entry's text, 3 for
\* a line of another entry's text, 0 for a line that belongs to no entry.
LineClass(l) ==
    IF l.ord < 0 THEN 0
    ELSE IF l.line.k = "fwd" THEN 1
    ELSE IF type_lib[l.ord + 1].typekind = TKIND_ENUM THEN 2
    ELSE 3

PhasesInOrder ==
    \A i, j \in 1 .. Len(out) :
        (i < j /\ LineClass(out[i]) > 0 /\ LineClass(out[j]) > 0) =>
            /\ LineClass(out[i]) <= LineClass(out[j])
            /\ LineClass(out[i]) = LineClass(out[j]) =>
                  out[i].ord <= out[j].ord

\* The forward declarations the library calls for, by ordinal.
RECURSIVE ExpectedForward(_, _)
ExpectedForward(tl, i) ==
    IF i >= Len(tl) THEN <<>>
    ELSE LET ti == tl[i + 1]
             kw == IF ti.typekind = TKIND_COCLASS THEN "coclass"
                   ELSE IF ti.typekind = TKIND_INTERFACE THEN "interface"
                   ELSE IF HasFlag(ti.wTypeFlags, 64) THEN "interface"
                   ELSE "dispinterface"
         IN  (IF /\ ReadableType(ti)
                 /\ ti.typekind \in {TKIND_INTERFACE, TKIND_DISPATCH,
                                     TKIND_COCLASS}
              THEN <<[ord |-> i, kw |-> kw, name |-> ti.doc.name]>>
              ELSE <<>>)
             \o ExpectedForward(tl, i + 1)

WrittenForward ==
    LET fs == SelectSeq(out, LAMBDA l : l.line.k = "fwd")
    IN  [j \in 1 .. Len(fs) |->
            [ord |-> fs[j].ord, kw |-> fs[j].line.kw, name |-> fs[j].line.name]]

\* C1: in the text build_tlb has written when it ends, forward declarations
\* precede enum bodies, enum bodies precede the other bodies, each phase is
\* in ascending ordinal order, and the forward declarations are exactly
\* those of the readable Interface, Dispatch and CoClass entries (a Dispatch
\* entry as interface when dual, as dispinterface otherwise).
C1_OutputOrderAndForwardDecls ==
    (Finished /\ LibraryRead) =>
        /\ PhasesInOrder
        /\ WrittenForward = ExpectedForward(type_lib, 0)

\* The same statement for the calls that return Ok.
OutputOrderWhenOk ==
    result = "Ok" =>
        /\ PhasesInOrder
        /\ WrittenForward = ExpectedForward(type_lib, 0)

UnreadableEntry(ti) ==
    \/ ~ti.info_ok
    \/ ~ti.attr_ok
    \/ ti.cust.ti2 /\ ~ti.cust.ok

UnreadableOrdinals ==
    {k \in 0 .. (Len(type_lib) - 1) : UnreadableEntry(type_lib[k + 1])}

HasBody(k) ==
    \E j \in 1 .. Len(out) :
        out[j].ord = k /\ out[j].phase \in {"enum", "body"}

PlaceholderLines(k) ==
    {j \in 1 .. Len(out) : out[j].ord = k /\ out[j].line.k = "comment"}

\* C2: for a library in which exactly one entry is unreadable (its type
\* info, its attributes or its custom data), build_tlb returns Ok, and its
\* output holds the body of every other entry and exactly one placeholder
\* comment line for the unreadable one.
C2_OneUnreadableEntryDegrades ==
    (Finished /\ LibraryRead /\ Cardinality(UnreadableOrdinals) = 1) =>
        /\ result = "Ok"
        /\ \A k \in 0 .. (Len(type_lib) - 1) :
              k \notin UnreadableOrdinals => HasBody(k)
        /\ \A k \in UnreadableOrdinals :
              Cardinality(PlaceholderLines(k)) = 1

\* C3: in the output of a call that returned Ok, every forward declaration
\* is followed, in the last phase, by a body "... Name { ... };" of the same
\* entry.
C3_ForwardDeclaredGetsBody ==
    result = "Ok" =>
        \A i \in 1 .. Len(out) :
            out[i].line.k = "fwd" =>
                \E j \in (i + 1) .. Len(out) :
                    /\ out[j].phase = "body"
                    /\ out[j].ord = out[i].ord
                    /\ out[j].line.k = "open"
                    /\ out[j].line.name = out[i].line.name

(***************************************************************************)
(* Enum bodies (SpecType).                                                 *)
(***************************************************************************)
\* The values of an entry that GetVarDesc can read, in library order.
ReadableVars(ti) == SelectSeq(ti.vars, LAMBDA v : v.ok)

\* The text of an enum entry has been produced.
EnumIdlWritten ==
    /\ tidl.run
    /\ tidl.val.ok
    /\ type_lib[1].typekind = TKIND_ENUM

\* The line the format strings of print_var give for one value:
\* "name = value," with a literal, "name," without.
ExpectedEnumLine(v) ==
    IF v.desc.has_value
    THEN [k |-> "enumval", name |-> get_name(v.desc.doc), has_value |-> TRUE,
          value |-> IntToString(v.desc.lVal)]
    ELSE [k |-> "enumval", name |-> get_name(v.desc.doc), has_value |-> FALSE,
          value |-> <<>>]

\* C11: the text of an Enum entry is its attribute line, "enum Name {", one
\* line per readable value in the library's order ("name = value," when the
\* value carries a literal, "name," when it carries none), "};" and a blank
\* line.
C11_EnumBodyInLibraryOrder ==
    EnumIdlWritten =>
        LET ti == type_lib[1]
            rv == ReadableVars(ti)
            ls == tidl.val.lines
            n == Len(rv)
        IN  /\ Len(ls) = n + 4
            /\ ls[1].k = "attrs"
            /\ ls[2] = [k |-> "open", kw |-> "enum", name |-> get_name(ti.doc),
                        base |-> <<>>]
            /\ \A j \in 1 .. n : ls[2 + j] = ExpectedEnumLine(rv[j])
            /\ ls[n + 3] = [k |-> "close", name |-> <<>>]
            /\ ls[n + 4] = Blank

\* An enum {A = 1, B} (a literal, then none) has been written.
C11_Witness ==
    /\ EnumIdlWritten
    /\ type_lib[1].vars = <<EnumValue(S_A, TRUE, 1), EnumValue(S_B, FALSE, 0)>>
    /\ Len(tidl.val.lines) = 6

(***************************************************************************)
(* The search table of App::new (SpecType).                                *)
(***************************************************************************)
\* The names of all members of an entry: its visible methods, then its
\* readable variables (enum values, record fields, module constants).
MemberNames(ti) == SlotNames(VisibleFuncs(ti)) \o SlotNames(ReadableVars(ti))

\* One (owner ordinal, owner name, member name) triple per member of every
\* readable entry from ordinal i on, in ascending ordinal.
RECURSIVE ExpectedSearchTable(_, _)
ExpectedSearchTable(lib, i) ==
    IF i >= Len(lib) THEN <<>>
    ELSE LET ti == lib[i + 1]
             ns == MemberNames(ti)
         IN  (IF ReadableType(ti)
              THEN [j \in 1 .. Len(ns) |->
                      <<i, get_name(ti.doc), ns[j]>>]
              ELSE <<>>)
             \o ExpectedSearchTable(lib, i + 1)

SearchTableTriples(items) ==
    [j \in 1 .. Len(items) |->
        <<items[j].type_index, items[j].type_name, items[j].member_name>>]

\* C12: after App::new the search table holds exactly one item for every
\* member (method, enum value, record field, module constant) of every
\* readable type, tagged with the owner's ordinal and name, in ascending
\* order of type ordinal.
C12_SearchTableCoversEveryMember ==
    app.run =>
        SearchTableTriples(app.val.all_search_items)
            = ExpectedSearchTable(type_lib, 0)

\* What the table does hold: the methods get_type_methods returns and the
\* values get_type_enums returns, which are those of Enum entries only.
SearchTableHoldsMethodsAndEnumValues ==
    app.run =>
        \A j \in 1 .. Len(app.val.all_search_items) :
            LET it == app.val.all_search_items[j]
                ti == type_lib[it.type_index + 1]
            IN  /\ ReadableType(ti)
                /\ it.type_name = get_name(ti.doc)
                /\ \/ it.kind = "Method"
                   \/ it.kind = "Enum" /\ ti.typekind = TKIND_ENUM

(***************************************************************************)
(* The interactive browser (src/src/ui.rs).  browser holds the fields of   *)
(* the App that the key handlers read and write; the scrollbar states,     *)
(* which only mirror a selection for drawing, and the documentation        *)
(* provider are left out.  An Option<usize> is [some |-> FALSE] or         *)
(* [some |-> TRUE, v |-> i]; indices are 0-based as in the source.         *)
(***************************************************************************)
None == [some |-> FALSE]

Some(i) == [some |-> TRUE, v |-> i]

\* The width of usize in the model.
UsizeBits ==
    2

USIZE_MAX == 2 ^ UsizeBits - 1

\* a - b on usize without overflow checks.
wrapping_sub(a, b) == (a - b) % (USIZE_MAX + 1)

\* Identity in place of lower-casing: a variant the filter properties must
\* tell from to_lowercase.
to_lowercase_skipped(s) == s

\* str::to_lowercase on ASCII text.
to_lowercase(s) == [j \in 1 .. Len(s) |-> to_ascii_lowercase(s[j])]

\* str::starts_with: a variant the search properties must tell from
\* str_contains.
str_starts_with(haystack, needle) ==
    /\ Len(needle) <= Len(haystack)
    /\ SubSeq(haystack, 1, Len(needle)) = needle

\* str::contains with a string pattern.
str_contains(haystack, needle) ==
    \E i \in 0 .. (Len(haystack) - Len(needle)) :
        SubSeq(haystack, i + 1, i + Len(needle)) = needle

\* String::pop.
pop(s) == IF s = <<>> THEN s ELSE SubSeq(s, 1, Len(s) - 1)

\* types.iter().enumerate(): each loaded type with its index in types.
Enumerated(types) ==
    [j \in 1 .. Len(types) |->
        [original_idx |-> j - 1, name |-> types[j].name,
         kind |-> types[j].kind]]

\* The TypeLibInfo of the App: what its three queries return for each
\* ordinal of the loaded library.
TypeLibInfo(lib) ==
    [i \in 0 .. (Len(lib) - 1) |->
        [idl |-> get_type_idl(lib, i),
         methods |-> get_type_methods(lib, i),
         enums |-> get_type_enums(lib, i)]]

update_selection(a) ==
    IF ~a.list_state.some \/ a.list_state.v >= Len(a.filtered_types)
    THEN a
    ELSE LET original_idx == a.filtered_types[a.list_state.v + 1].original_idx
             idl == a.type_lib_info[original_idx].idl
             ms == a.type_lib_info[original_idx].methods
             es == a.type_lib_info[original_idx].enums
             methods == IF ms.ok THEN ms.methods ELSE <<>>
             enums == IF es.ok THEN es.enums ELSE <<>>
         IN  [a EXCEPT
                !.current_idl = IF idl.ok THEN idl.lines ELSE @,
                !.current_methods = methods,
                !.current_enums = enums,
                !.content_table_state =
                    IF methods # <<>> \/ enums # <<>> THEN Some(0) ELSE None]

\* update_filter without the reset of the selection to the first row: the
\* selection moves on by one row each time the filter is applied.
update_filter_advancing(a) ==
    LET query == to_lowercase(a.search_query)
        ft == SelectSeq(Enumerated(a.types),
                        LAMBDA t : str_contains(to_lowercase(t.name), query))
        b == [a EXCEPT !.filtered_types = ft, !.list_state = None]
        row == IF a.list_state.some /\ a.list_state.v + 1 < Len(ft)
               THEN a.list_state.v + 1 ELSE 0
    IN  IF ft # <<>>
        THEN update_selection([b EXCEPT !.list_state = Some(row)])
        ELSE [b EXCEPT !.current_idl = <<>>,
                       !.current_methods = <<>>,
                       !.current_enums = <<>>,
                       !.content_table_state = None]

update_filter(a) ==
    LET query == to_lowercase(a.search_query)
        ft == SelectSeq(Enumerated(a.types),
                        LAMBDA t : str_contains(to_lowercase(t.name), query))
        b == [a EXCEPT !.filtered_types = ft, !.list_state = None]
    IN  IF ft # <<>>
        THEN update_selection([b EXCEPT !.list_state = Some(0)])
        ELSE [b EXCEPT !.current_idl = <<>>,
                       !.current_methods = <<>>,
                       !.current_enums = <<>>,
                       !.content_table_state = None]

\* App::new: the index loop, the initial field values, update_filter.
App_new(lib) ==
    LET index == AppNewIndex(lib)
    IN  update_filter(
            [type_lib_info |-> TypeLibInfo(lib),
             show_doc |-> FALSE,
             types |-> index.types,
             filtered_types |-> <<>>,
             list_state |-> None,
             current_idl |-> <<>>,
             current_methods |-> <<>>,
             current_enums |-> <<>>,
             search_query |-> <<>>,
             member_search_query |-> <<>>,
             view_mode |-> "Structured",
             search_target |-> "Types",
             focus |-> "TypeList",
             content_table_state |-> None,
             all_search_items |-> index.all_search_items,
             show_global_search |-> FALSE,
             global_search_query |-> <<>>,
             global_search_results |-> <<>>,
             global_search_state |-> None])

\* The length the Content arm of next and previous works with.
ContentLen(a) ==
    IF a.current_methods # <<>> THEN Len(a.current_methods)
    ELSE Len(a.current_enums)

\* "len - 1" on usize is evaluated with len = 0.
NextUnderflows(a) ==
    /\ a.focus = "TypeList"
    /\ a.list_state.some
    /\ Len(a.filtered_types) = 0

PreviousUnderflows(a) ==
    /\ a.focus = "TypeList"
    /\ a.list_state.some
    /\ a.list_state.v = 0
    /\ Len(a.filtered_types) = 0

\* The index next moves to in a list of len rows, from selection sel.
NextIndex(sel, len) ==
    IF sel.some
    THEN (IF sel.v >= wrapping_sub(len, 1) THEN 0 ELSE sel.v + 1)
    ELSE 0

PreviousIndex(sel, len) ==
    IF sel.some
    THEN (IF sel.v = 0 THEN wrapping_sub(len, 1) ELSE sel.v - 1)
    ELSE 0

next(a) ==
    IF a.focus = "TypeList"
    THEN update_selection(
            [a EXCEPT !.list_state =
                Some(NextIndex(a.list_state, Len(a.filtered_types)))])
    ELSE IF ContentLen(a) > 0
         THEN [a EXCEPT !.content_table_state =
                 Some(NextIndex(a.content_table_state, ContentLen(a)))]
         ELSE a

previous(a) ==
    IF a.focus = "TypeList"
    THEN update_selection(
            [a EXCEPT !.list_state =
                Some(PreviousIndex(a.list_state, Len(a.filtered_types)))])
    ELSE IF ContentLen(a) > 0
         THEN [a EXCEPT !.content_table_state =
                 Some(PreviousIndex(a.content_table_state, ContentLen(a)))]
         ELSE a

toggle_view(a) ==
    [a EXCEPT !.view_mode = IF @ = "Idl" THEN "Structured" ELSE "Idl"]

toggle_search_target(a) ==
    [a EXCEPT !.search_target = IF @ = "Types" THEN "Members" ELSE "Types"]

\* The indices (0-based) of the items whose member name contains query.
MatchingItems(items, query) ==
    SelectSeq([j \in 1 .. Len(items) |-> j - 1],
              LAMBDA i : str_contains(to_lowercase(items[i + 1].member_name),
                                      query))

update_global_search(a) ==
    LET query == to_lowercase(a.global_search_query)
        results == MatchingItems(a.all_search_items, query)
    IN  IF query = <<>>
        THEN [a EXCEPT !.global_search_results = <<>>,
                       !.global_search_state = None]
        ELSE [a EXCEPT !.global_search_results = results,
                       !.global_search_state =
                           IF results # <<>> THEN Some(0) ELSE None]

next_global_result(a) ==
    IF a.global_search_results = <<>> THEN a
    ELSE [a EXCEPT !.global_search_state =
            Some(NextIndex(a.global_search_state,
                           Len(a.global_search_results)))]

previous_global_result(a) ==
    IF a.global_search_results = <<>> THEN a
    ELSE [a EXCEPT !.global_search_state =
            Some(PreviousIndex(a.global_search_state,
                               Len(a.global_search_results)))]

\* filtered_types.iter().position(|(idx, _, _)| *idx == type_index)
PositionOfType(filtered_types, type_index) ==
    LET hit == {j \in 1 .. Len(filtered_types) :
                   filtered_types[j].original_idx = type_index}
    IN  IF hit = {} THEN None
        ELSE Some((CHOOSE j \in hit : \A k \in hit : j <= k) - 1)

\* iter().position(|m| m.name.to_lowercase() == member_query)
PositionOfMember(members, member_query) ==
    LET hit == {j \in 1 .. Len(members) :
                   to_lowercase(members[j].name) = member_query}
    IN  IF hit = {} THEN None
        ELSE Some((CHOOSE j \in hit : \A k \in hit : j <= k) - 1)

select_global_result(a) ==
    IF \/ ~a.global_search_state.some
       \/ a.global_search_state.v >= Len(a.global_search_results)
    THEN a
    ELSE LET item_idx == a.global_search_results[a.global_search_state.v + 1]
         IN  IF item_idx >= Len(a.all_search_items) THEN a
             ELSE LET item == a.all_search_items[item_idx + 1]
                      b == update_filter(
                              [a EXCEPT !.show_global_search = FALSE,
                                        !.search_query = <<>>])
                      pos == PositionOfType(b.filtered_types, item.type_index)
                      c == IF pos.some
                           THEN update_selection([b EXCEPT !.list_state = pos])
                           ELSE b
                      d == [c EXCEPT
                              !.member_search_query = item.member_name,
                              !.search_target = "Members"]
                      member_query == to_lowercase(item.member_name)
                      mpos == IF d.current_methods # <<>>
                              THEN PositionOfMember(d.current_methods,
                                                    member_query)
                              ELSE IF d.current_enums # <<>>
                              THEN PositionOfMember(d.current_enums,
                                                    member_query)
                              ELSE None
                  IN  IF mpos.some
                      THEN [d EXCEPT !.content_table_state = mpos]
                      ELSE d

is_method_selected(a) == a.focus = "Content" /\ a.current_methods # <<>>

\* The rows the content table shows in the structured view: the methods, or
\* else the enum values, whose name contains the member filter.
VisibleMembers(a) ==
    SelectSeq(IF a.current_methods # <<>> THEN a.current_methods
              ELSE a.current_enums,
              LAMBDA m : str_contains(to_lowercase(m.name),
                                      to_lowercase(a.member_search_query)))

\* What a stateful widget may do to its selection when it is drawn with n
\* rows: drop it when there is no row, pull it back to the last row when it
\* is past the end.
Clamped(sel, n) ==
    IF ~sel.some THEN sel
    ELSE IF n = 0 THEN None
    ELSE IF sel.v >= n THEN Some(n - 1)
    ELSE sel

\* terminal.draw(|f| ui(f, &mut app)): the widgets are handed the selection
\* states mutably.  Depending on the widget library built against, the
\* selections are left as they are or brought into the range of the rows
\* drawn.
Draws(a) ==
    {a,
     [a EXCEPT
        !.list_state = Clamped(@, Len(a.filtered_types)),
        !.content_table_state =
            IF /\ a.view_mode = "Structured"
               /\ (a.current_methods # <<>> \/ a.current_enums # <<>>)
            THEN Clamped(@, Len(VisibleMembers(a)))
            ELSE @,
        !.global_search_state =
            IF a.show_global_search
            THEN Clamped(@, Len(a.global_search_results))
            ELSE @]}

(***************************************************************************)
(* run_app: the loop "draw, read a key, handle it".  One action per key;   *)
(* each begins with the draw of the frame the key is pressed on.  Keys     *)
(* that fall to the "_ => {}" arms are left out.                           *)
(***************************************************************************)
\* Most characters typed into one query.
MaxQuery ==
    4

S_OpenAsync == <<"O", "p", "e", "n", "A", "s", "y", "n", "c">>
S_Document == <<"D", "o", "c", "u", "m", "e", "n", "t">>
S_Window == <<"W", "i", "n", "d", "o", "w">>

\* The texts typed into the type filter, the member filter and the global
\* query: a query is typed character by character towards one of them.
TypeWords == {<<"N", "d">>, <<"z">>}

MemberWords == {<<"A", "q">>}

GlobalWords == {<<"o", "p", "e", "n", "a">>, <<"A">>}

KeyChars == {"N", "d", "z", "q", "A", "o", "p", "e", "n", "a"}

\* Typing c after s keeps s on the way to one of the words.
Typeable(s, c, words) ==
    /\ Len(s) < MaxQuery
    /\ \E w \in words : str_starts_with(w, Append(s, c))

Document ==
    [Shape(TKIND_INTERFACE, 0, S_Document) EXCEPT
        !.funcs = <<Method(1, S_Open), Method(2, S_OpenAsync)>>]

Window ==
    [Shape(TKIND_INTERFACE, 0, S_Window) EXCEPT
        !.funcs = <<Method(1, S_Close)>>]

\* The libraries browsed: two readable types; two readable types behind one
\* whose GetTypeAttr fails; no type at all.
UiLibraries ==
    {<<Document, Window>>,
     <<[Document EXCEPT !.attr_ok = FALSE], Window, EnumShape>>,
     <<>>}

InitUi ==
    /\ type_lib \in UiLibraries
    /\ browser = App_new(type_lib)
    /\ ui_pc = "loop"
    /\ tmethods = NotRun
    /\ tidl = NotRun
    /\ app = NotRun
    /\ tdesc = NotRun
    /\ resolved = NotRun
    /\ fd = NotRun
    /\ minfo = NotRun
    /\ sig = NotRun
    /\ pc = "idle"
    /\ idx = 0
    /\ out = <<>>
    /\ result = "idle"

\* The handler ran to its end and the loop goes round.
Handled(a) ==
    /\ browser' = a
    /\ UNCHANGED <<ui_pc, type_lib, descVars, funcVars, typeVars, buildVars>>

\* "return Ok(())": run_app is left.
Returned(a) ==
    /\ browser' = a
    /\ ui_pc' = "returned"
    /\ UNCHANGED <<type_lib, descVars, funcVars, typeVars, buildVars>>

\* A subtraction overflowed in a build with overflow checks: the thread
\* panics inside the handler.
Panicked(a) ==
    /\ browser' = a
    /\ ui_pc' = "panicked"
    /\ UNCHANGED <<type_lib, descVars, funcVars, typeVars, buildVars>>

\* KeyCode::Down.  "len - 1" with len = 0 panics in a build with overflow
\* checks and wraps in one without.
KeyDown ==
    /\ ui_pc = "loop"
    /\ \E d \in Draws(browser) :
          IF d.show_global_search THEN Handled(next_global_result(d))
          ELSE \/ NextUnderflows(d) /\ Panicked(d)
               \/ Handled(next(d))

\* KeyCode::Up.
KeyUp ==
    /\ ui_pc = "loop"
    /\ \E d \in Draws(browser) :
          IF d.show_global_search THEN Handled(previous_global_result(d))
          ELSE \/ PreviousUnderflows(d) /\ Panicked(d)
               \/ Handled(previous(d))

\* KeyCode::Right and KeyCode::Left (overlay not active).
KeyRight ==
    /\ ui_pc = "loop"
    /\ ~browser.show_global_search
    /\ \E d \in Draws(browser) : Handled([d EXCEPT !.focus = "Content"])

KeyLeft ==
    /\ ui_pc = "loop"
    /\ ~browser.show_global_search
    /\ \E d \in Draws(browser) : Handled([d EXCEPT !.focus = "TypeList"])

\* KeyCode::Tab (overlay not active).
KeyTab ==
    /\ ui_pc = "loop"
    /\ ~browser.show_global_search
    /\ \E d \in Draws(browser) : Handled(toggle_view(d))

\* Ctrl+P (overlay not active): open the overlay with an empty query.
KeyCtrlP ==
    /\ ui_pc = "loop"
    /\ ~browser.show_global_search
    /\ \E d \in Draws(browser) :
          Handled(update_global_search(
                    [d EXCEPT !.show_global_search = TRUE,
                              !.global_search_query = <<>>]))

\* Ctrl+F (overlay not active).
KeyCtrlF ==
    /\ ui_pc = "loop"
    /\ ~browser.show_global_search
    /\ \E d \in Draws(browser) : Handled(toggle_search_target(d))

\* KeyCode::Enter.
KeyEnter ==
    /\ ui_pc = "loop"
    /\ \E d \in Draws(browser) :
          IF d.show_global_search THEN Handled(select_global_result(d))
          ELSE IF is_method_selected(d)
          THEN Handled([d EXCEPT !.show_doc = ~@])
          ELSE Handled(d)

\* Esc handled by the arm of the main view whatever is shown: a variant
\* the modality of the overlay must tell from KeyEsc.
KeyEscReturning ==
    /\ ui_pc = "loop"
    /\ \E d \in Draws(browser) : Returned(d)

\* KeyCode::Esc.
KeyEsc ==
    /\ ui_pc = "loop"
    /\ \E d \in Draws(browser) :
          IF d.show_global_search
          THEN Handled([d EXCEPT !.show_global_search = FALSE])
          ELSE Returned(d)

\* KeyCode::Char(c), the arms of Ctrl+P and Ctrl+F apart.
TypeChar(c) ==
    /\ ui_pc = "loop"
    /\ \E d \in Draws(browser) :
          IF d.show_global_search
          THEN /\ Typeable(d.global_search_query, c, GlobalWords)
               /\ Handled(update_global_search(
                            [d EXCEPT !.global_search_query = Append(@, c)]))
          ELSE IF /\ c = "q"
                  /\ d.search_query = <<>>
                  /\ d.member_search_query = <<>>
          THEN Returned(d)
          ELSE IF d.search_target = "Types"
          THEN /\ Typeable(d.search_query, c, TypeWords)
               /\ Handled(update_filter(
                            [d EXCEPT !.search_query = Append(@, c)]))
          ELSE /\ Typeable(d.member_search_query, c, MemberWords)
               /\ Handled([d EXCEPT !.member_search_query = Append(@, c)])

KeyChar == \E c \in KeyChars : TypeChar(c)

\* KeyCode::Backspace.
KeyBackspace ==
    /\ ui_pc = "loop"
    /\ \E d \in Draws(browser) :
          IF d.show_global_search
          THEN Handled(update_global_search(
                         [d EXCEPT !.global_search_query = pop(@)]))
          ELSE IF d.search_target = "Types"
          THEN Handled(update_filter([d EXCEPT !.search_query = pop(@)]))
          ELSE Handled([d EXCEPT !.member_search_query = pop(@)])

NextUi ==
    \/ KeyDown
    \/ KeyUp
    \/ KeyRight
    \/ KeyLeft
    \/ KeyTab
    \/ KeyCtrlP
    \/ KeyCtrlF
    \/ KeyEnter
    \/ KeyEsc
    \/ KeyChar
    \/ KeyBackspace

SpecUi == InitUi /\ [][NextUi]_vars

(***************************************************************************)
(* The filtered type list (SpecUi).                                        *)
(***************************************************************************)
\* needle occurs in haystack when letter case is ignored.
ContainsIgnoreCase(haystack, needle) ==
    \E i \in 0 .. (Len(haystack) - Len(needle)) :
        \A j \in 1 .. Len(needle) :
            to_ascii_lowercase(haystack[i + j]) = to_ascii_lowercase(needle[j])

\* The entries of the library that App::new could name, in library order.
LoadedTypes ==
    LET named == SelectSeq(type_lib, ReadableType)
    IN  [j \in 1 .. Len(named) |->
            [name |-> get_name(named[j].doc),
             kind |-> KindName(named[j].typekind)]]

\* The positions (0-based) in types of the names that contain query.
MatchingTypes(types, query) ==
    SelectSeq([j \in 1 .. Len(types) |-> j - 1],
              LAMBDA i : ContainsIgnoreCase(types[i + 1].name, query))

\* C13: in every reachable state the filtered type list is exactly the
\* loaded types whose name contains the type filter, letter case ignored,
\* in their original order; so no key changes the filter string without
\* the list being derived again.
C13_FilteredTypesFollowFilter ==
    LET want == MatchingTypes(LoadedTypes, browser.search_query)
    IN  /\ browser.types = LoadedTypes
        /\ Len(browser.filtered_types) = Len(want)
        /\ \A j \in 1 .. Len(want) :
              /\ browser.filtered_types[j].original_idx = want[j]
              /\ browser.filtered_types[j].name = LoadedTypes[want[j] + 1].name
              /\ browser.filtered_types[j].kind = LoadedTypes[want[j] + 1].kind

\* The filter "Nd" has been typed over Document and Window: only Window is
\* listed, found through letters of the other case.
C13_Witness ==
    /\ browser.search_query = <<"N", "d">>
    /\ Len(browser.types) = 2
    /\ Len(browser.filtered_types) = 1
    /\ browser.filtered_types[1].name = S_Window

(***************************************************************************)
(* Selections and navigation (SpecUi).                                     *)
(***************************************************************************)
\* A selection is none or the index of one of n rows.
ValidSelection(sel, n) == ~sel.some \/ sel.v < n

\* C14: no key makes the loop fail (no arithmetic underflow, no panic), and
\* in every reachable state the type selection is none or an index into
\* the filtered type list, the member selection none or an index into the
\* members visible under the member filter, and the global-result
\* selection none or an index into the result list.
C14_SelectionsAlwaysValid ==
    /\ ui_pc # "panicked"
    /\ ValidSelection(browser.list_state, Len(browser.filtered_types))
    /\ ValidSelection(browser.content_table_state,
                      Len(VisibleMembers(browser)))
    /\ ValidSelection(browser.global_search_state,
                      Len(browser.global_search_results))

\* What does hold: the global-result selection is always in range.
GlobalSelectionAlwaysValid ==
    ValidSelection(browser.global_search_state,
                   Len(browser.global_search_results))

\* The list Down and Up act on has no row.
TargetedListEmpty ==
    IF browser.show_global_search
    THEN browser.global_search_results = <<>>
    ELSE IF browser.focus = "TypeList"
    THEN browser.filtered_types = <<>>
    ELSE browser.current_methods = <<>> /\ browser.current_enums = <<>>

\* The key handler left the App as the draw of the frame had it, and the
\* loop goes on.
HandlerChangedNothing ==
    /\ browser' \in Draws(browser)
    /\ ui_pc' = ui_pc

\* C15: Down or Up while the targeted list is empty (the filtered type list
\* with focus on it, the members with focus on the content panel, the
\* global results in the overlay) changes nothing and does not fail.
C15_MoveOnEmptyListIsNoOp ==
    [][((KeyDown \/ KeyUp) /\ TargetedListEmpty)
          => HandlerChangedNothing]_vars

\* What does hold: with no member, or no global result, Down and Up change
\* nothing.
MoveOnEmptyContentOrResultsIsNoOp ==
    [][((KeyDown \/ KeyUp)
        /\ TargetedListEmpty
        /\ (browser.show_global_search \/ browser.focus = "Content"))
          => HandlerChangedNothing]_vars

\* Down, then Up, from row v of n rows, circularly.
RowBelow(v, n) == (v + 1) % n

RowAbove(v, n) == (v + n - 1) % n

\* The selection sel is on one of n rows and the key moved it to sel2 as a
\* circular list of n rows requires.
MovesCircularly(sel, sel2, n) ==
    (n > 0 /\ sel.some /\ sel.v < n) =>
        /\ KeyDown => sel2 = Some(RowBelow(sel.v, n))
        /\ KeyUp => sel2 = Some(RowAbove(sel.v, n))

\* C16: in a non-empty list Down and Up move the selection by one row and
\* wrap circularly over the rows the list shows: the filtered type list,
\* the member list as filtered by the member filter, the global results.
C16_MoveWrapsOverVisibleRows ==
    [][IF browser.show_global_search
       THEN MovesCircularly(browser.global_search_state,
                            browser.global_search_state',
                            Len(browser.global_search_results))
       ELSE IF browser.focus = "TypeList"
       THEN MovesCircularly(browser.list_state, browser.list_state',
                            Len(browser.filtered_types))
       ELSE MovesCircularly(browser.content_table_state,
                            browser.content_table_state',
                            Len(VisibleMembers(browser)))]_vars

\* What does hold: the type list and the global results wrap circularly.
TypeListAndResultsWrap ==
    [][IF browser.show_global_search
       THEN MovesCircularly(browser.global_search_state,
                            browser.global_search_state',
                            Len(browser.global_search_results))
       ELSE browser.focus = "TypeList" =>
                MovesCircularly(browser.list_state, browser.list_state',
                                Len(browser.filtered_types))]_vars

(***************************************************************************)
(* The members of the selected type (SpecUi).                              *)
(***************************************************************************)
\* The library ordinals of the entries App::new could name, in order: the
\* k-th of them (from 0) is the entry behind types[k].
NamedOrdinals ==
    SelectSeq([j \in 1 .. Len(type_lib) |-> j - 1],
              LAMBDA i : ReadableType(type_lib[i + 1]))

\* The library ordinal of the type selected in the list, if any.
SelectedOrdinal(a) ==
    IF a.list_state.some /\ a.list_state.v < Len(a.filtered_types)
    THEN Some(NamedOrdinals[a.filtered_types[a.list_state.v + 1].original_idx
                            + 1])
    ELSE None

\* The entry with this ordinal has a method or an enum value to show.
HasMembers(ordinal) ==
    \/ get_type_methods(type_lib, ordinal).methods # <<>>
    \/ get_type_enums(type_lib, ordinal).enums # <<>>

\* A key that moves in the type list or edits the type filter.
TypeListKey ==
    /\ ~browser.show_global_search
    /\ \/ (KeyDown \/ KeyUp) /\ browser.focus = "TypeList"
       \/ (KeyChar \/ KeyBackspace) /\ browser.search_target = "Types"

\* The key left another type selected than before.
SelectedTypeChanged ==
    /\ SelectedOrdinal(browser').some
    /\ SelectedOrdinal(browser') # SelectedOrdinal(browser)

\* The member selection as the newly selected type requires it.
MemberSelectionReset ==
    browser.content_table_state' =
        IF HasMembers(SelectedOrdinal(browser').v) THEN Some(0) ELSE None

\* C17: after a key that changes the selected type by moving in the type
\* list or editing the type filter, the member selection is 0 when the
\* newly selected type has a method or an enum value, and none otherwise.
C17_MemberSelectionResetOnTypeChange ==
    [][(TypeListKey /\ SelectedTypeChanged) => MemberSelectionReset]_vars

\* Every entry of the library can be named, so that the index of a type in
\* types is its ordinal.
AllEntriesNamed == \A j \in 1 .. Len(type_lib) : ReadableType(type_lib[j])

\* What does hold: the same on a library all of whose entries can be named.
MemberSelectionResetWhenAllNamed ==
    [][(AllEntriesNamed /\ TypeListKey /\ SelectedTypeChanged)
          => MemberSelectionReset]_vars

(***************************************************************************)
(* The filter strings (SpecUi).                                            *)
(***************************************************************************)
\* The targeted filter became t2 and the other one stayed as it was.
TargetedBecomes(t2, m2) ==
    IF browser.search_target = "Types"
    THEN /\ browser.search_query' = t2
         /\ browser.member_search_query' = browser.member_search_query
    ELSE /\ browser.member_search_query' = m2
         /\ browser.search_query' = browser.search_query

\* C18: while the overlay is not active, typing a character appends it to
\* the targeted filter string and Backspace removes that string's last
\* character; the other filter string is left unchanged by either key, and
\* switching the target changes neither string.
C18_KeysEditTargetedFilterOnly ==
    [][~browser.show_global_search =>
          /\ \A c \in KeyChars :
                TypeChar(c) =>
                    TargetedBecomes(Append(browser.search_query, c),
                                    Append(browser.member_search_query, c))
          /\ KeyBackspace =>
                TargetedBecomes(pop(browser.search_query),
                                pop(browser.member_search_query))
          /\ KeyCtrlF =>
                /\ browser.search_query' = browser.search_query
                /\ browser.member_search_query' = browser.member_search_query
      ]_vars

\* The character that leaves the loop instead of being typed.
QuitKey(c) ==
    /\ c = "q"
    /\ browser.search_query = <<>>
    /\ browser.member_search_query = <<>>

\* What does hold: the same for every character but a q typed while both
\* filters are empty.
KeysEditTargetedFilterUnlessQuit ==
    [][~browser.show_global_search =>
          /\ \A c \in KeyChars :
                (TypeChar(c) /\ ~QuitKey(c)) =>
                    TargetedBecomes(Append(browser.search_query, c),
                                    Append(browser.member_search_query, c))
          /\ KeyBackspace =>
                TargetedBecomes(pop(browser.search_query),
                                pop(browser.member_search_query))
          /\ KeyCtrlF =>
                /\ browser.search_query' = browser.search_query
                /\ browser.member_search_query' = browser.member_search_query
      ]_vars

(***************************************************************************)
(* Global search (SpecUi).                                                 *)
(***************************************************************************)
\* The indices (0-based, ascending) of the items whose member name
\* contains q, letter case ignored.
ItemsContaining(items, q) ==
    SelectSeq([j \in 1 .. Len(items) |-> j - 1],
              LAMBDA i : ContainsIgnoreCase(items[i + 1].member_name, q))

\* The key edited the global query and left it non-empty.
GlobalQueryEdited ==
    /\ browser.global_search_query' # browser.global_search_query
    /\ browser.global_search_query' # <<>>

\* Open and OpenAsync of Document, Close of Window.
ExampleItems(items) ==
    /\ Len(items) = 3
    /\ items[1].member_name = S_Open /\ items[1].type_name = S_Document
    /\ items[2].member_name = S_OpenAsync /\ items[2].type_name = S_Document
    /\ items[3].member_name = S_Close /\ items[3].type_name = S_Window

S_open == <<"o", "p", "e", "n">>

\* C19: after every edit of the global query to a non-empty string q the
\* result list is exactly the indices of the SearchItems of all types whose
\* member name contains q, letter case ignored, in ascending order; the
\* first result is selected when there is one, none otherwise.  With
\* Open, OpenAsync (Document) and Close (Window), "open" yields the first
\* two items.
C19_GlobalResultsFollowQuery ==
    [][GlobalQueryEdited =>
          LET want == ItemsContaining(browser.all_search_items',
                                      browser.global_search_query')
          IN  /\ browser.global_search_results' = want
              /\ browser.global_search_state' =
                    IF want # <<>> THEN Some(0) ELSE None
              /\ (/\ ExampleItems(browser.all_search_items')
                  /\ browser.global_search_query' = S_open)
                    => browser.global_search_results' = <<0, 1>>]_vars

\* "open" has been typed into the overlay over Open, OpenAsync and Close.
C19_Witness ==
    /\ browser.show_global_search
    /\ browser.global_search_query = S_open
    /\ ExampleItems(browser.all_search_items)
    /\ browser.global_search_results = <<0, 1>>
    /\ browser.global_search_state = Some(0)

\* Enter is pressed in the overlay with a result selected.
AcceptsResult ==
    /\ KeyEnter
    /\ browser.show_global_search
    /\ browser.global_search_state.some
    /\ browser.global_search_state.v < Len(browser.global_search_results)

\* The SearchItem the overlay's selection stands on.
ChosenItem ==
    browser.all_search_items[
        browser.global_search_results[browser.global_search_state.v + 1] + 1]

\* C20: accepting a global-search result leaves the overlay closed, the
\* type filter empty, the type that owns the chosen item selected, the
\* filter target on Members and the member filter equal to the chosen
\* member's name.
C20_AcceptSelectsOwnerAndSeedsFilter ==
    [][AcceptsResult =>
          /\ ~browser.show_global_search'
          /\ browser.search_query' = <<>>
          /\ SelectedOrdinal(browser') = Some(ChosenItem.type_index)
          /\ browser.search_target' = "Members"
          /\ browser.member_search_query' = ChosenItem.member_name]_vars

\* What does hold: the same on a library all of whose entries can be named.
AcceptSelectsOwnerWhenAllNamed ==
    [][(AllEntriesNamed /\ AcceptsResult) =>
          /\ ~browser.show_global_search'
          /\ browser.search_query' = <<>>
          /\ SelectedOrdinal(browser') = Some(ChosenItem.type_index)
          /\ browser.search_target' = "Members"
          /\ browser.member_search_query' = ChosenItem.member_name]_vars

\* What holds on every library: all of it but the selected type.
AcceptClosesAndSeedsFilter ==
    [][AcceptsResult =>
          /\ ~browser.show_global_search'
          /\ browser.search_query' = <<>>
          /\ browser.search_target' = "Members"
          /\ browser.member_search_query' = ChosenItem.member_name]_vars

(***************************************************************************)
(* The member list after accepting a global-search result (SpecUi).        *)
(***************************************************************************)
\* C21: after accepting a global-search result the members of the selected
\* type that pass the member filter are exactly one row, and that row is
\* the chosen member.
C21_ChosenMemberIsSoleVisibleRow ==
    [][AcceptsResult =>
          /\ Len(VisibleMembers(browser')) = 1
          /\ VisibleMembers(browser')[1].name = ChosenItem.member_name]_vars

\* The chosen member's name is contained in no other member name of the
\* type that owns it.
ChosenNameIsNoSubstring ==
    LET names == MemberNames(type_lib[ChosenItem.type_index + 1])
    IN  Len(SelectSeq(names,
                LAMBDA n : ContainsIgnoreCase(n, ChosenItem.member_name))) = 1

\* What does hold: the same on a library all of whose entries can be named,
\* for a chosen name that no other member name of the type contains.
SoleVisibleRowWhenNoSubstring ==
    [][(AllEntriesNamed /\ AcceptsResult /\ ChosenNameIsNoSubstring) =>
          /\ Len(VisibleMembers(browser')) = 1
          /\ VisibleMembers(browser')[1].name = ChosenItem.member_name]_vars

(***************************************************************************)
(* A selection update whose reads fail (SpecUi).                           *)
(***************************************************************************)
\* Down or Up moves in a type list that has rows, so that update_selection
\* reads the row it arrives at.
MovesInTypeList ==
    /\ KeyDown \/ KeyUp
    /\ ~browser.show_global_search
    /\ browser.focus = "TypeList"
    /\ browser.filtered_types # <<>>
    /\ browser.list_state'.some
    /\ browser.list_state'.v < Len(browser.filtered_types)

\* What the three queries of update_selection returned for the row the
\* selection arrived at.
QueriedAfterMove ==
    browser.type_lib_info[
        browser.filtered_types[browser.list_state'.v + 1].original_idx]

\* C22: when a selection update fails to read the IDL, the methods or the
\* enum values of the newly selected type, the displayed value it could not
\* read keeps the content it had before, and the event loop continues.
C22_FailedUpdateKeepsDisplayedData ==
    [][MovesInTypeList =>
          /\ ui_pc' = "loop"
          /\ ~QueriedAfterMove.idl.ok
                => browser.current_idl' = browser.current_idl
          /\ ~QueriedAfterMove.methods.ok
                => browser.current_methods' = browser.current_methods
          /\ ~QueriedAfterMove.enums.ok
                => browser.current_enums' = browser.current_enums]_vars

\* What does hold: the IDL text is kept and the loop continues; the methods
\* and the enum values that could not be read are shown as empty lists.
FailedUpdateKeepsIdlOnly ==
    [][MovesInTypeList =>
          /\ ui_pc' = "loop"
          /\ ~QueriedAfterMove.idl.ok
                => browser.current_idl' = browser.current_idl
          /\ ~QueriedAfterMove.methods.ok => browser.current_methods' = <<>>
          /\ ~QueriedAfterMove.enums.ok => browser.current_enums' = <<>>]_vars

(***************************************************************************)
(* Idempotence of the type filter (SpecUi).                                *)
(***************************************************************************)
\* update_filter applied to a twice shows the same rows, the same selected
\* type and the same member selection as applied once.
SameAfterSecondFilter(a) ==
    LET once == update_filter(a)
        twice == update_filter(once)
    IN  /\ twice.filtered_types = once.filtered_types
        /\ twice.list_state = once.list_state
        /\ SelectedOrdinal(twice) = SelectedOrdinal(once)
        /\ twice.content_table_state = once.content_table_state

\* C23: from every reachable state, as it is and as drawn, applying
\* update_filter twice with the type-filter string of that state yields the
\* same filtered type list, the same selected type ordinal and the same
\* member selection as applying it once.
C23_UpdateFilterIdempotent ==
    \A d \in Draws(browser) : SameAfterSecondFilter(d)

\* A filter that two types pass has been typed and the selection moved to
\* the second row: applying update_filter changes the state, applying it
\* again changes nothing more.
C23_Witness ==
    /\ browser.search_query # <<>>
    /\ Len(browser.filtered_types) = 2
    /\ browser.list_state = Some(1)
    /\ update_filter(browser).list_state = Some(0)
    /\ update_filter(browser) # browser
    /\ update_filter(update_filter(browser)) = update_filter(browser)

(***************************************************************************)
(* The ordinals the browser works with (SpecUi).                           *)
(***************************************************************************)
\* The index i, as a row of the type list carries it, is the library
\* ordinal of the entry whose name and kind that row shows.
IsOrdinalOfShownEntry(i) ==
    /\ i < Len(browser.types)
    /\ NamedOrdinals[i + 1] = i

\* The rows of the type list and the items of the search index.
RowsAndItemsUseOrdinals ==
    /\ \A j \in 1 .. Len(browser.filtered_types) :
          IsOrdinalOfShownEntry(browser.filtered_types[j].original_idx)
    /\ \A k \in 1 .. Len(browser.all_search_items) :
          IsOrdinalOfShownEntry(browser.all_search_items[k].type_index)

\* C24: for every row of the filtered type list the index passed to
\* get_type_idl, get_type_methods and get_type_enums is the library ordinal
\* of the entry whose name and kind the row shows, and the type_index of
\* every SearchItem designates the entry shown by the row that carries the
\* same index, also behind an entry that could not be named at load.
C24_OrdinalsIdentifyDisplayedType == RowsAndItemsUseOrdinals

\* What does hold: the same on a library all of whose entries can be named.
OrdinalsIdentifyWhenAllNamed == AllEntriesNamed => RowsAndItemsUseOrdinals

(***************************************************************************)
(* The highlighted member after accepting a result (SpecUi).               *)
(***************************************************************************)
\* The selection sel designates a row of rows whose name is name.
DesignatesMember(sel, rows, name) ==
    /\ sel.some
    /\ sel.v < Len(rows)
    /\ rows[sel.v + 1].name = name

\* C25: after accepting a global-search result the member selection, read
\* against the member list as filtered by the member filter, designates a
\* row whose name is the chosen member's name.
C25_HighlightedMemberIsChosen ==
    [][AcceptsResult =>
          DesignatesMember(browser.content_table_state',
                           VisibleMembers(browser'),
                           ChosenItem.member_name)]_vars

\* The members of the selected type before the member filter is applied.
UnfilteredMembers(a) ==
    IF a.current_methods # <<>> THEN a.current_methods ELSE a.current_enums

\* What does hold, on a library all of whose entries can be named: the
\* selection designates the chosen member in the unfiltered member list.
ChosenIsSelectedInUnfilteredList ==
    [][(AllEntriesNamed /\ AcceptsResult) =>
          DesignatesMember(browser.content_table_state',
                           UnfilteredMembers(browser'),
                           ChosenItem.member_name)]_vars

(***************************************************************************)
(* The return value in the IDL text and in the structured model            *)
(* (SpecFunc).                                                             *)
(***************************************************************************)
\* Both functions have been applied to the drawn method, which is not
\* hidden.
BothViewsTaken == minfo.run /\ minfo.val.ok /\ SigWritten

\* The pointed-to type of the trailing parameter print_function appended.
SynthPointee ==
    LET t == SigLine.params[Len(SigLine.params)].type
    IN  SubSeq(t, 1, Len(t) - 1)

\* The two views agree on the return value of the drawn method.
ReturnValuesAgree ==
    /\ SynthAppended <=> minfo.val.ret_type # S_void
    /\ SynthAppended =>
          /\ SigLine.params[Len(SigLine.params)].attrs = <<"out", "retval">>
          /\ SynthPointee = minfo.val.ret_type

\* C26: for every method that is not hidden, print_function writes the
\* trailing "[out, retval] T* name" parameter exactly when
\* get_function_info reports a return type other than void, and T is the
\* return type get_function_info reports.
C26_IdlAndModelAgreeOnReturn == BothViewsTaken => ReturnValuesAgree

\* What does hold: the two agree on a method without a parameter flagged
\* retval, a propget declared void apart.
ReturnValuesAgreeWithoutRetvalParam ==
    (/\ BothViewsTaken
     /\ ~HasRetvalParam(fd)
     /\ ~(fd.invkind = INVOKE_PROPERTYGET /\ fd.elemdescFunc.vt = VT_VOID))
        => ReturnValuesAgree

(***************************************************************************)
(* The name of the synthesized output parameter (SpecFunc).                *)
(***************************************************************************)
\* C28: the name print_function gives the synthesized output parameter
\* differs, under case-insensitive comparison, from the name of every other
\* parameter of the emitted signature.
C28_SynthesizedNameNeverCollides ==
    SynthAppended =>
        LET ps == SigLine.params
        IN  \A j \in 1 .. cParams(fd) :
                to_lowercase(ps[j].name) # to_lowercase(ps[Len(ps)].name)

\* What does hold: the synthesized name collides with no parameter unless
\* one parameter is called val and another one retVal.
SynthesizedNameCollidesOnlyWithRetVal ==
    SynthAppended =>
        LET ps == SigLine.params
        IN  \A j \in 1 .. cParams(fd) :
                to_lowercase(ps[j].name) = to_lowercase(ps[Len(ps)].name)
                    => /\ ps[Len(ps)].name = S_retVal
                       /\ \E h \in 1 .. cParams(fd) :
                             ps[h].name \in ValSpellings

(***************************************************************************)
(* Modality of the global-search overlay (SpecUi).                         *)
(***************************************************************************)
\* The key changed nothing but the overlay's own state: apart from the
\* global query, the result list, the result selection and the overlay
\* flag, the state is what the draw before the key left.
OnlyOverlayStateChanged ==
    \E d \in Draws(browser) :
        browser' =
            [d EXCEPT
                !.global_search_query = browser.global_search_query',
                !.global_search_results = browser.global_search_results',
                !.global_search_state = browser.global_search_state',
                !.show_global_search = browser.show_global_search']

\* C27: while the overlay is active no key ends the session, every key
\* other than Enter changes only the overlay's own state (the type filter,
\* the member filter, the filter target, the focus, the view mode, the type
\* selection and the member selection stay as they are), and Esc closes
\* the overlay.
C27_OverlayIsModal ==
    [][browser.show_global_search =>
          /\ ui_pc' = "loop"
          /\ OnlyOverlayStateChanged \/ KeyEnter
          /\ KeyEsc => ~browser.show_global_search']_vars

\* With a type filter typed, the focus moved and the view switched, the
\* overlay was opened, a query typed and the result selection moved.
C27_Witness ==
    /\ ui_pc = "loop"
    /\ browser.show_global_search
    /\ browser.global_search_query = <<"o">>
    /\ Len(browser.global_search_results) = 3
    /\ browser.global_search_state = Some(1)
    /\ browser.search_query = <<"N">>
    /\ browser.focus = "Content"
    /\ browser.view_mode = "Idl"
    /\ browser.list_state = Some(0)

(***************************************************************************)
(* The attribute block of a type (SpecType).                               *)
(***************************************************************************)
\* The keywords print_interface_header writes for type flags.
FlagKeywords ==
    {"hidden", "dual", "restricted", "nonextensible", "oleautomation"}

\* The attribute blocks in the IDL text written for the entry.
AttrBlocks == SelectSeq(tidl.val.lines, LAMBDA l : l.k = "attrs")

\* How often the keyword stands in the attribute list.
Occurrences(attrs, word) ==
    Cardinality({j \in 1 .. Len(attrs) : attrs[j].a = word})

\* C29: in an attribute block written by print_interface_header each of the
\* flag keywords hidden, dual, restricted, nonextensible and oleautomation
\* stands at most once, whatever the combination of type flags.
C29_NoFlagAttributeTwice ==
    (tidl.run /\ tidl.val.ok) =>
        \A j \in 1 .. Len(AttrBlocks) : \A w \in FlagKeywords :
            Occurrences(AttrBlocks[j].attrs, w) <= 1

\* What does hold: no keyword but oleautomation is ever repeated, and
\* oleautomation stands twice exactly when TYPEFLAG_FOLEAUTOMATION is set
\* together with TYPEFLAG_FDUAL or TYPEFLAG_FDISPATCHABLE.
OnlyOleautomationRepeated ==
    (tidl.run /\ tidl.val.ok) =>
        \A j \in 1 .. Len(AttrBlocks) :
            /\ \A w \in FlagKeywords \ {"oleautomation"} :
                  Occurrences(AttrBlocks[j].attrs, w) <= 1
            /\ Occurrences(AttrBlocks[j].attrs, "oleautomation") <= 2
            /\ Occurrences(AttrBlocks[j].attrs, "oleautomation") = 2
                  <=> /\ HasFlag(type_lib[1].wTypeFlags,
                                 TYPEFLAG_FOLEAUTOMATION)
                      /\ \/ HasFlag(type_lib[1].wTypeFlags, TYPEFLAG_FDUAL)
                         \/ HasFlag(type_lib[1].wTypeFlags,
                                    TYPEFLAG_FDISPATCHABLE)

(***************************************************************************)
(* Descriptors obtained from ITypeInfo and their release (SpecType).  Each *)
(* function is given the sequence of the Get... and Release... calls it    *)
(* makes on the entry's ITypeInfo, in the order of the code, up to its     *)
(* return.  IDL text is written to a Vec, so no write fails.               *)
(***************************************************************************)
\* A member loop: a descriptor that could be read is released at the end of
\* the same iteration.
RECURSIVE DescriptorEvents(_, _, _)
DescriptorEvents(slots, get, release) ==
    IF slots = <<>> THEN <<>>
    ELSE (IF Head(slots).ok THEN <<get, release>> ELSE <<>>)
         \o DescriptorEvents(Tail(slots), get, release)

FuncLoopEvents(ti) ==
    DescriptorEvents(ti.funcs, "GetFuncDesc", "ReleaseFuncDesc")

VarLoopEvents(ti) ==
    DescriptorEvents(ti.vars, "GetVarDesc", "ReleaseVarDesc")

get_type_name_and_kind_events(lib, index) ==
    LET ti == type_info_at(lib, index)
    IN  IF ~ti.info_ok \/ ~ti.attr_ok THEN <<>>
        ELSE <<"GetTypeAttr", "ReleaseTypeAttr">>

get_type_methods_events(lib, index) ==
    LET ti == type_info_at(lib, index)
    IN  IF ~ti.info_ok \/ ~ti.attr_ok THEN <<>>
        ELSE <<"GetTypeAttr">> \o FuncLoopEvents(ti) \o <<"ReleaseTypeAttr">>

get_type_enums_events(lib, index) ==
    LET ti == type_info_at(lib, index)
    IN  IF ~ti.info_ok \/ ~ti.attr_ok THEN <<>>
        ELSE <<"GetTypeAttr">>
             \o (IF ti.typekind = TKIND_ENUM THEN VarLoopEvents(ti) ELSE <<>>)
             \o <<"ReleaseTypeAttr">>

\* print_interface_header obtains the TYPEATTR and has no ReleaseTypeAttr.
print_interface_header_events(ti) ==
    IF ~ti.attr_ok THEN <<>> ELSE <<"GetTypeAttr">>

\* The match on the type kind in print_type_info.
TypeBodyEvents(ti) ==
    CASE ti.typekind = TKIND_INTERFACE -> FuncLoopEvents(ti)
      [] ti.typekind = TKIND_DISPATCH ->
            IF HasFlag(ti.wTypeFlags, TYPEFLAG_FDUAL)
            THEN FuncLoopEvents(ti) ELSE <<>>
      [] ti.typekind = TKIND_ENUM -> VarLoopEvents(ti)
      [] ti.typekind = TKIND_RECORD -> VarLoopEvents(ti)
      [] ti.typekind = TKIND_MODULE ->
            (IF Len(ti.funcs) > 0 /\ ti.funcs[1].ok
             THEN <<"GetFuncDesc", "ReleaseFuncDesc">> ELSE <<>>)
            \o VarLoopEvents(ti) \o FuncLoopEvents(ti)
      [] OTHER -> <<>>

\* print_type_info returns through "?" when print_interface_header fails,
\* before it reaches its ReleaseTypeAttr.
print_type_info_events(ti) ==
    IF ~ti.attr_ok THEN <<>>
    ELSE <<"GetTypeAttr">>
         \o print_interface_header_events(ti)
         \o (IF ~print_interface_header(ti).ok THEN <<>>
             ELSE TypeBodyEvents(ti) \o <<"ReleaseTypeAttr">>)

get_type_idl_events(lib, index) ==
    LET ti == type_info_at(lib, index)
    IN  IF ~ti.info_ok THEN <<>> ELSE print_type_info_events(ti)

\* The body of the index loop of App::new for one ordinal.
AppNewEvents(lib, index) ==
    get_type_name_and_kind_events(lib, index)
    \o (IF get_type_name_and_kind(lib, index).ok
        THEN get_type_methods_events(lib, index)
             \o get_type_enums_events(lib, index)
        ELSE <<>>)

\* How often the call stands in the sequence.
Calls(events, call) ==
    Cardinality({j \in 1 .. Len(events) : events[j] = call})

\* Every TYPEATTR obtained has been released.
TypeAttrsReleased(events) ==
    Calls(events, "GetTypeAttr") = Calls(events, "ReleaseTypeAttr")

\* Every function or variable descriptor is released before anything else
\* is obtained.
DescriptorsReleasedAtOnce(events) ==
    \A j \in 1 .. Len(events) :
        /\ events[j] = "GetFuncDesc" =>
              j < Len(events) /\ events[j + 1] = "ReleaseFuncDesc"
        /\ events[j] = "GetVarDesc" =>
              j < Len(events) /\ events[j + 1] = "ReleaseVarDesc"

AllReleased(events) ==
    TypeAttrsReleased(events) /\ DescriptorsReleasedAtOnce(events)

\* C30: every TYPEATTR obtained with GetTypeAttr is released with
\* ReleaseTypeAttr once before the function that obtained it returns, on
\* every path, and every function or variable descriptor obtained in a
\* member loop is released before the loop moves on.
C30_EveryDescriptorReleased ==
    /\ tidl.run => AllReleased(get_type_idl_events(type_lib, 0))
    /\ tmethods.run => AllReleased(get_type_methods_events(type_lib, 0))
    /\ app.run => AllReleased(AppNewEvents(type_lib, 0))

\* What does hold: get_type_name_and_kind, get_type_methods and
\* get_type_enums release what they obtain, and so do the member loops of
\* print_type_info; of the TYPEATTRs obtained while the IDL of an entry is
\* written, print_type_info's own is released when the header could be
\* written and print_interface_header's never.
ReleasedExceptByHeader ==
    /\ tmethods.run => AllReleased(get_type_methods_events(type_lib, 0))
    /\ app.run => AllReleased(AppNewEvents(type_lib, 0))
    /\ tidl.run =>
          LET events == get_type_idl_events(type_lib, 0)
              got == Calls(events, "GetTypeAttr")
          IN  /\ DescriptorsReleasedAtOnce(events)
              /\ Calls(events, "ReleaseTypeAttr") =
                    IF tidl.val.ok THEN got - 1 ELSE 0
              /\ got = IF type_lib[1].info_ok /\ type_lib[1].attr_ok
                       THEN 2 ELSE 0

=============================================================================
